---------------------------- MODULE Spec2Model ----------------------------
(***************************************************************************)
(* S-RIM snapshot valuation pipeline (martinchoi85-lang/s-rim-kospi).      *)
(*                                                                         *)
(*   SpecSrim      the valuation engine  compute_srim  (app/models.py)     *)
(*   SpecResolver  the fundamentals resolver                               *)
(*                 fetch_latest_annual_fundamentals (app/etl/sources_dart) *)
(*   Spec          the result store  upsert_srim_result                    *)
(*                 (app/etl/stage3_srim.py)                                *)
(*   SpecClassify  the quality classifier  classify_flags                  *)
(*                 (app/api/routes_srim.py)                                *)
(*   SpecSanitize  the numeric sanitizer  sanitize_for_json                *)
(*                 (app/utils/json_sanitize.py)                            *)
(*                                                                         *)
(* Python floats are modelled as exact rationals (normalised fractions):   *)
(* binary64 rounding is not part of the model.  Optional[T] is modelled as *)
(* a set with at most one element: None is {} and a value v is {v}.        *)
(***************************************************************************)
EXTENDS Integers, Sequences, FiniteSets, TLC

VARIABLES
    \* ---- compute_srim ----
    x,                        \* the SrimInput
    persistence,              \* keyword argument persistence
    clamp_negative_residual,  \* keyword argument clamp_negative_residual
    y,                        \* the SrimOutput, None before the call returns
    srim_pc,                  \* "call" | "done"
    \* ---- fetch_latest_annual_fundamentals ----
    tickers,                  \* argument tickers (raw identifiers)
    ticker_to_name,           \* argument ticker_to_name (None or a dict)
    max_companies,            \* argument max_companies (None or an int)
    dart,                     \* the DART service: corp_code -> kind of service
    corp_df,                  \* the corpCode table, None before it is loaded
    use_tickers,              \* the normalised tickers the loop runs over
    results,                  \* list of FundamentalRow
    iter,                     \* number of loop iterations begun
    tk, name, corp_code,      \* locals of one iteration
    picked_year, fs_df, flags, found,
    pos,                      \* place in the search loops: <<rc, fs_div, year>> indexes
    res_pc,                   \* "idle" | "start" | "loop" | "search" | "done" | "raised"
    fetch_log,                \* the calls of dart_fnltt_all issued so far
    last_response,            \* what the last call of dart_fnltt_all did
    \* ---- upsert_srim_result ----
    srim_result,              \* the table srim_result: a set of rows
    clock,                    \* the database's now()
    call,                     \* the last call: its arguments and return value
    prev_call,                \* the call before it
    before,                   \* srim_result as the last call found it
    ncalls,                   \* number of calls made
    \* ---- classify_flags ----
    flags_arg,                \* the argument flags (any Python value)
    verdict,                  \* the returned (quality, reasons), None before
    \* ---- sanitize_for_json ----
    obj,                      \* the argument obj (any Python value)
    sanitized,                \* the value returned, None before the call
    resanitized,              \* the value returned for it by a second call
    \* ---- run (app/etl/run_etl.py) and the tables it writes ----
    world,                    \* what KRX and DART report, fixed in a behaviour
    snapshots,                \* the table snapshots
    discount_rate_snapshot,   \* the table discount_rate_snapshot
    tickers_table,            \* the table tickers
    market_snapshot,          \* the table market_snapshot
    fundamental_snapshot,     \* the table fundamental_snapshot
    run_pc,                   \* where run() is: "idle", a stage, a step of stage 3
    stages,                   \* the argument stages, as a set
    market_df,                \* run's local market_df, None before stage 1
    rate_read,                \* run_stage3_srim's local r, None before it is read
    calc_df,                  \* run_stage3_srim's local df
    out_rows,                 \* run_stage3_srim's local out_rows
    next_row,                 \* upsert_srim_result: index of the row the loop is at
    count,                    \* upsert_srim_result's local count
    tx,                       \* srim_result as the session's open transaction sees it
    summary,                  \* what run_stage3_srim returned, None before
    run_exit,                 \* how the last call of run ended
    db_open,                  \* run holds an open database session
    write_failed,             \* whether db.execute raised in this call of run
    rate_changed,             \* whether another writer changed the rate in stage 3
    \* ---- the value extraction of fetch_latest_annual_fundamentals ----
    payload,                  \* the non-empty payload the search stopped at
    extracted,                \* the FundamentalRow built from it, None before
    \* ---- fetch_shares_out_for_tickers ----
    sh_pc,                    \* "idle", "call" or "done"
    sh_args,                  \* the arguments tickers and preferred_year_report
    sh_at,                    \* index of the ticker the outer loop is at
    sh_try,                   \* index in tries of the next attempt, 0 between tickers
    sh_flags,                 \* the local flags of the ticker
    sh_out,                   \* the local out
    sh_calls,                 \* the calls of dart_stock_total_status, with what they gave
    \* ---- two sessions in upsert_srim_result at the same time ----
    conc_table,               \* the committed rows of srim_result
    conc_sessions,            \* per session: rows, position, uncommitted rows, state
    conc_commits              \* the sessions that committed, in the order of their commits

srimVars == <<x, persistence, clamp_negative_residual, y, srim_pc>>

resArgs == <<tickers, ticker_to_name, max_companies, dart>>

resLocals == <<tk, name, corp_code, picked_year, fs_df, flags, found, pos>>

resVars ==
    <<resArgs, corp_df, use_tickers, results, iter, resLocals, res_pc, fetch_log,
      last_response>>

dbVars == <<srim_result, clock, call, prev_call, before, ncalls>>

classifyVars == <<flags_arg, verdict>>

sanitizeVars == <<obj, sanitized, resanitized>>

tableVars ==
    <<snapshots, discount_rate_snapshot, tickers_table, market_snapshot,
      fundamental_snapshot>>

stage3Locals == <<rate_read, calc_df, out_rows, next_row, count, tx, summary>>

runVars ==
    <<world, tableVars, run_pc, stages, market_df, stage3Locals, run_exit, db_open,
      write_failed, rate_changed>>

extractVars == <<payload, extracted>>

\* The variables of the components added after run.
sharesVars == <<sh_pc, sh_args, sh_at, sh_try, sh_flags, sh_out, sh_calls>>

concVars == <<conc_table, conc_sessions, conc_commits>>

lateVars == <<extractVars, sharesVars, concVars>>

srimFrame == <<resVars, dbVars, classifyVars, sanitizeVars, runVars, lateVars>>

resFrame == <<srimVars, dbVars, classifyVars, sanitizeVars, runVars, lateVars>>

dbFrame == <<srimVars, resVars, classifyVars, sanitizeVars, runVars, lateVars>>

classifyFrame == <<srimVars, resVars, dbVars, sanitizeVars, runVars, lateVars>>

sanitizeFrame == <<srimVars, resVars, dbVars, classifyVars, runVars, lateVars>>

runFrame ==
    <<srimVars, resVars, classifyVars, sanitizeVars, clock, call, prev_call, before,
      ncalls, lateVars>>

earlyVars == <<srimVars, resVars, dbVars, classifyVars, sanitizeVars, runVars>>

extractFrame == <<earlyVars, sharesVars, concVars>>

sharesFrame == <<earlyVars, extractVars, concVars>>

concFrame ==
    <<srimVars, resVars, classifyVars, sanitizeVars, runVars, srim_result, call,
      prev_call, before, ncalls, extractVars, sharesVars>>

vars == <<earlyVars, lateVars>>

(***************************************************************************)
(* Optional values and dicts                                               *)
(***************************************************************************)
None == {}

Some(v) == {v}

Val(o) == CHOOSE v \in o : TRUE

EmptyDict == <<>>

\* d[k] = v of a Python dict: adds the key or overwrites its value.
DictSet(d, k, v) == [q \in (DOMAIN d) \cup {k} |-> IF q = k THEN v ELSE d[q]]

(***************************************************************************)
(* Float arithmetic, as exact fractions n/d with d > 0 in lowest terms.    *)
(* NaN is the fraction 0/0: it propagates through the arithmetic and every *)
(* comparison with it is false.                                            *)
(***************************************************************************)
Abs(i) == IF i < 0 THEN -i ELSE i

RECURSIVE GCD(_, _)
GCD(a, b) == IF b = 0 THEN a ELSE GCD(b, a % b)

Rat(n, d) ==
    IF d = 0 THEN [n |-> 0, d |-> 0]
    ELSE LET s == IF d < 0 THEN -1 ELSE 1
             g == GCD(Abs(n), Abs(d))
         IN  [n |-> (s * n) \div g, d |-> (s * d) \div g]

Num(i) == [n |-> i, d |-> 1]

RAdd(a, b) == Rat(a.n * b.d + b.n * a.d, a.d * b.d)

RSub(a, b) == Rat(a.n * b.d - b.n * a.d, a.d * b.d)

RMul(a, b) == Rat(a.n * b.n, a.d * b.d)

\* a / b for b # 0 (every division of compute_srim is guarded)
RDiv(a, b) == Rat(a.n * b.d, a.d * b.n)

RLt(a, b) == a.d # 0 /\ b.d # 0 /\ a.n * b.d < b.n * a.d

RLe(a, b) == a.d # 0 /\ b.d # 0 /\ a.n * b.d <= b.n * a.d

(***************************************************************************)
(* compute_srim (app/models.py)                                            *)
(***************************************************************************)
SrimOutput(srim_price, bps, roe, spread, gap_pct, fl) ==
    [srim_price |-> srim_price, bps |-> bps, roe |-> roe, spread |-> spread,
     gap_pct |-> gap_pct, flags |-> fl]

\* Mutant of blocking_flag: the shares check moved before the equity check.
blocking_flag_shares_first(i) ==
    IF i.equity_parent = None \/ i.net_income_parent = None
         \/ i.shares_out = None \/ i.discount_rate = None
    THEN "FLAG_MISSING_INPUT"
    ELSE IF RLe(Val(i.shares_out), Num(0)) THEN "FLAG_SHARES_NON_POSITIVE"
    ELSE IF RLe(Val(i.equity_parent), Num(0)) THEN "FLAG_EQUITY_NON_POSITIVE"
    ELSE IF RLe(Val(i.discount_rate), Num(0)) THEN "FLAG_DISCOUNT_RATE_NON_POSITIVE"
    ELSE ""

\* The input validation: the flag of the first failing precondition, "" when
\* all four pass.
blocking_flag(i) ==
    IF i.equity_parent = None \/ i.net_income_parent = None
         \/ i.shares_out = None \/ i.discount_rate = None
    THEN "FLAG_MISSING_INPUT"
    ELSE IF RLe(Val(i.equity_parent), Num(0)) THEN "FLAG_EQUITY_NON_POSITIVE"
    ELSE IF RLe(Val(i.shares_out), Num(0)) THEN "FLAG_SHARES_NON_POSITIVE"
    ELSE IF RLe(Val(i.discount_rate), Num(0)) THEN "FLAG_DISCOUNT_RATE_NON_POSITIVE"
    ELSE ""

bps_of(i) == RDiv(Val(i.equity_parent), Val(i.shares_out))

roe_of(i) == RDiv(Val(i.net_income_parent), Val(i.equity_parent))

\* Mutant of spread_of: the discount rate is not subtracted.
spread_of_without_rate(i) == roe_of(i)

spread_of(i) == RSub(roe_of(i), Val(i.discount_rate))

residual_income_total(i) == RMul(spread_of(i), Val(i.equity_parent))

\* Mutant of clamps: the clamp_negative_residual switch is ignored.
clamps_always(i, clamp) == RLt(residual_income_total(i), Num(0))

\* The condition of the clamp branch.
clamps(i, clamp) == clamp /\ RLt(residual_income_total(i), Num(0))

\* residual_income_total after the clamp branch
residual_used(i, clamp) ==
    IF clamps(i, clamp) THEN Num(0) ELSE residual_income_total(i)

\* Mutant of pv_residual: the division by the discount rate is missing.
pv_residual_no_discount(i, p, clamp) == RMul(residual_used(i, clamp), p)

pv_residual(i, p, clamp) ==
    RMul(RDiv(residual_used(i, clamp), Val(i.discount_rate)), p)

intrinsic_total(i, p, clamp) == RAdd(Val(i.equity_parent), pv_residual(i, p, clamp))

srim_price_of(i, p, clamp) == RDiv(intrinsic_total(i, p, clamp), Val(i.shares_out))

\* Mutant of market_price_ok: only the truthiness test, without "> 0".
market_price_truthy(i) ==
    i.market_price # None /\ Val(i.market_price) # Num(0)

\* "x.market_price and x.market_price > 0": None and 0 are falsy.
market_price_ok(i) ==
    /\ i.market_price # None
    /\ Val(i.market_price) # Num(0)
    /\ RLt(Num(0), Val(i.market_price))

gap_pct_of(i, p, clamp) ==
    IF market_price_ok(i)
    THEN Some(RMul(RSub(RDiv(srim_price_of(i, p, clamp), Val(i.market_price)),
                        Num(1)), Num(100)))
    ELSE None

\* Mutant of srim_flags: the bad market price is not flagged.
srim_flags_without_bad_price(i, p, clamp) ==
    LET f1 == DictSet(EmptyDict, "residual_income_total", residual_income_total(i))
        f2 == IF clamps(i, clamp)
              THEN DictSet(f1, "FLAG_NEGATIVE_RESIDUAL_CLAMPED", TRUE) ELSE f1
        f3 == DictSet(f2, "pv_residual_total", pv_residual(i, p, clamp))
        f5 == IF RLt(roe_of(i), Num(0))
              THEN DictSet(f3, "FLAG_ROE_NEGATIVE", TRUE) ELSE f3
        f6 == IF RLt(spread_of(i), Num(0))
              THEN DictSet(f5, "FLAG_ROE_BELOW_R", TRUE) ELSE f5
    IN  f6

srim_flags(i, p, clamp) ==
    LET f1 == DictSet(EmptyDict, "residual_income_total", residual_income_total(i))
        f2 == IF clamps(i, clamp)
              THEN DictSet(f1, "FLAG_NEGATIVE_RESIDUAL_CLAMPED", TRUE) ELSE f1
        f3 == DictSet(f2, "pv_residual_total", pv_residual(i, p, clamp))
        f4 == IF market_price_ok(i) THEN f3
              ELSE DictSet(f3, "FLAG_BAD_MARKET_PRICE", TRUE)
        f5 == IF RLt(roe_of(i), Num(0))
              THEN DictSet(f4, "FLAG_ROE_NEGATIVE", TRUE) ELSE f4
        f6 == IF RLt(spread_of(i), Num(0))
              THEN DictSet(f5, "FLAG_ROE_BELOW_R", TRUE) ELSE f5
    IN  f6

compute_srim(i, p, clamp) ==
    IF blocking_flag(i) # ""
    THEN SrimOutput(None, None, None, None, None,
                    DictSet(EmptyDict, blocking_flag(i), TRUE))
    ELSE SrimOutput(Some(srim_price_of(i, p, clamp)),
                    Some(bps_of(i)),
                    Some(roe_of(i)),
                    Some(spread_of(i)),
                    gap_pct_of(i, p, clamp),
                    srim_flags(i, p, clamp))

(***************************************************************************)
(* Strings of the resolver: a str is a sequence of one-character strings   *)
(***************************************************************************)
Digits == {"0", "1", "2", "3", "4", "5", "6", "7", "8", "9"}

RECURSIVE lstrip(_)
lstrip(s) == IF s # <<>> /\ Head(s) = " " THEN lstrip(Tail(s)) ELSE s

RECURSIVE rstrip(_)
rstrip(s) ==
    IF s # <<>> /\ s[Len(s)] = " " THEN rstrip(SubSeq(s, 1, Len(s) - 1)) ELSE s

strip(s) == rstrip(lstrip(s))

Zeros(n) == [q \in 1 .. n |-> "0"]

\* str.zfill: pads with zeros on the left, after a leading sign
zfill(s, width) ==
    IF Len(s) >= width THEN s
    ELSE IF s # <<>> /\ Head(s) \in {"+", "-"}
         THEN <<Head(s)>> \o Zeros(width - Len(s)) \o Tail(s)
         ELSE Zeros(width - Len(s)) \o s

isdigit(s) == s # <<>> /\ \A q \in 1 .. Len(s) : s[q] \in Digits

TickerWidth == 6

\* str(x).strip().zfill(6)
normalize(t) == zfill(strip(t), TickerWidth)

\* Mutant of is_valid_ticker: the well-formedness check is skipped.
is_valid_ticker_unchecked(t) == TRUE

\* len(tk) == 6 and tk.isdigit()
is_valid_ticker(t) == Len(t) = TickerWidth /\ isdigit(t)

\* dict.get: None for a missing key, and None when there is no dict at all
lookup_name(t2n, t) ==
    IF t2n = None THEN None
    ELSE IF t \in DOMAIN Val(t2n) THEN Some(Val(t2n)[t]) ELSE None

\* Mutant of select_tickers: a limit of 0 selects nothing, as tickers[:0].
select_tickers_slice_zero(tickers_norm, limit) ==
    IF limit = None THEN tickers_norm
    ELSE SubSeq(tickers_norm, 1,
                IF Val(limit) < Len(tickers_norm) THEN Val(limit) ELSE Len(tickers_norm))

\* tickers_norm[:max_companies] if max_companies else tickers_norm
\* (None and 0 are falsy; a negative limit drops that many from the end)
select_tickers(tickers_norm, limit) ==
    IF limit = None \/ limit = Some(0) THEN tickers_norm
    ELSE IF Val(limit) < 0
         THEN SubSeq(tickers_norm, 1, Len(tickers_norm) + Val(limit))
         ELSE SubSeq(tickers_norm, 1,
                     IF Val(limit) < Len(tickers_norm) THEN Val(limit)
                     ELSE Len(tickers_norm))

(***************************************************************************)
(* The corpCode table and resolve_corp_code                                *)
(***************************************************************************)
_guess_common_stock_code(ticker) ==
    IF Len(ticker) # TickerWidth \/ ~isdigit(ticker) THEN None
    ELSE Some(SubSeq(ticker, 1, 5) \o <<"0">>)

Matches(df, code) == SelectSeq(df, LAMBDA r : r.stock_code = code)

resolve_corp_code(df, ticker) ==
    IF Matches(df, ticker) # <<>> THEN Some(Matches(df, ticker)[1].corp_code)
    ELSE LET common == _guess_common_stock_code(ticker)
         IN  IF common # None /\ Matches(df, Val(common)) # <<>>
             THEN Some(Matches(df, Val(common))[1].corp_code)
             ELSE None

(***************************************************************************)
(* DART payloads: a DataFrame is its columns and its rows.  An account     *)
(* name is a sequence of words, so that str.contains is a test for a       *)
(* contiguous subsequence:                                                 *)
(*   jibaegieop soyuju jibun                 equity of controlling owners  *)
(*   jibaejuju jibun                         equity of controlling owners  *)
(*   jabonchonggye                           total equity                  *)
(*   jibaegieop soyuju jibun danggi suniik   net income of contr. owners   *)
(*   jibaejuju suniik                        net income of contr. owners   *)
(*   danggi suniik                           net income                    *)
(***************************************************************************)
contains(s, key) ==
    \E o \in 0 .. (Len(s) - Len(key)) : SubSeq(s, o + 1, o + Len(key)) = key

RECURSIVE DigitsValue(_)
DigitsValue(s) ==
    IF s = <<>> THEN 0
    ELSE 10 * DigitsValue(SubSeq(s, 1, Len(s) - 1))
         + (CHOOSE d \in 0 .. 9 : ToString(d) = s[Len(s)])

\* x.replace(",", "").strip(), then float(x): None when float() raises
_safe_float(v) ==
    IF v = None THEN None
    ELSE LET t == strip(SelectSeq(Val(v), LAMBDA c : c # ","))
             u == IF t # <<>> /\ Head(t) \in {"+", "-"} THEN Tail(t) ELSE t
         IN  IF ~isdigit(u) THEN None
             ELSE IF Head(t) = "-" THEN Some(Num(-DigitsValue(u)))
                  ELSE Some(Num(DigitsValue(u)))

AmountColumns == <<"thstrm_amount", "thstrm_add_amount", "amount">>

_pick_value_from_dart_df(df, account_nm_keys) ==
    IF df = None \/ Len(Val(df).rows) = 0 THEN None
    ELSE IF "account_nm" \notin Val(df).columns THEN None
    ELSE LET cands == SelectSeq(AmountColumns, LAMBDA c : c \in Val(df).columns)
             hits(key) == SelectSeq(Val(df).rows,
                                    LAMBDA r : contains(r["account_nm"], key))
             keys == SelectSeq(account_nm_keys, LAMBDA key : hits(key) # <<>>)
         IN  IF cands = <<>> THEN None
             ELSE IF keys = <<>> THEN None
             ELSE _safe_float(hits(keys[1])[1][cands[1]])

EquityParentKeys == <<<<"jibaegieop", "soyuju", "jibun">>, <<"jibaejuju", "jibun">>>>

EquityTotalKeys == <<<<"jabonchonggye">>>>

NiParentKeys ==
    <<<<"jibaegieop", "soyuju", "jibun", "danggi", "suniik">>, <<"jibaejuju", "suniik">>>>

NiTotalKeys == <<<<"danggi", "suniik">>>>

Str(s) == [q \in 1 .. Len(s) |-> s[q]]

Account(nm, amount) == [account_nm |-> nm, thstrm_amount |-> Some(amount)]

DataFrame(rows) ==
    [columns |-> IF rows = <<>> THEN {} ELSE {"account_nm", "thstrm_amount"},
     rows |-> rows]

DfEmpty == DataFrame(<<>>)

\* controlling-owner accounts present: equity 900, net income 90
DfConsolidated ==
    DataFrame(<<Account(<<"jibaegieop", "soyuju", "jibun">>, <<"9", "0", "0">>),
                Account(<<"jabonchonggye">>, <<"1", ",", "0", "0", "0">>),
                Account(<<"jibaegieop", "soyuju", "jibun", "danggi", "suniik">>,
                        <<"9", "0">>),
                Account(<<"danggi", "suniik">>, <<"1", "0", "0">>)>>)

\* totals only: equity 2000, net income -150
DfStandalone ==
    DataFrame(<<Account(<<"jabonchonggye">>, <<"2", ",", "0", "0", "0">>),
                Account(<<"danggi", "suniik">>, <<"-", "1", "5", "0">>)>>)

\* none of the accounts the resolver looks for
DfOther == DataFrame(<<Account(<<"maechulaek">>, <<"5", "0", "0">>)>>)

Payloads == {DfConsolidated, DfStandalone, DfOther}

(***************************************************************************)
(* dart_fnltt_all: what one call may do                                    *)
(***************************************************************************)
Raised(err) == [kind |-> "raise", err |-> err, df |-> DfEmpty]

Returned(df) == [kind |-> "df", err |-> "", df |-> df]

ErrNoData == "RuntimeError: DART status=013"

ErrTransport == "HTTPError: 500"

current_year == 2026

reprt_codes == <<"11011", "11014", "11012", "11013">>

candidate_years == <<current_year - 2, current_year - 3, current_year - 1>>

default_report_code == "11011"

\* The responses a service of the given kind may give to one call.
Responses(kind, bsns_year, reprt_code, fs_div) ==
    CASE kind = "any" ->
            {Raised(ErrNoData), Raised(ErrTransport), Returned(DfEmpty)}
                \cup {Returned(p) : p \in Payloads}
      [] kind = "down" -> {Raised(ErrTransport)}
      [] kind = "empty" -> {Returned(DfEmpty)}
      [] kind = "standalone" ->
            IF reprt_code = "11011" /\ fs_div = "OFS" /\ bsns_year = current_year - 3
            THEN {Returned(DfStandalone)} ELSE {Raised(ErrNoData)}
      [] kind = "quarterly" ->
            IF reprt_code = "11014" /\ fs_div = "CFS" /\ bsns_year = current_year - 2
            THEN {Returned(DfConsolidated)} ELSE {Returned(DfEmpty)}

(***************************************************************************)
(* fetch_latest_annual_fundamentals                                        *)
(***************************************************************************)
FundamentalRow(ticker, fs_year, report_code, is_cons, equity, net_income, dq) ==
    [ticker |-> ticker, fs_year |-> fs_year, report_code |-> report_code,
     is_consolidated |-> is_cons, equity_parent |-> equity,
     net_income_parent |-> net_income, data_quality |-> dq]

\* flags.get(key): None for a missing key
DictGet(d, key) == IF key \in DOMAIN d THEN Some(d[key]) ELSE None

\* {**a, **b}
DictMerge(a, b) ==
    [q \in (DOMAIN a) \cup (DOMAIN b) |-> IF q \in DOMAIN b THEN b[q] ELSE a[q]]

FirstPos == [rc |-> 1, div |-> "CFS", y |-> 1]

\* Mutant of search_done: the search goes on after a non-empty payload.
search_done_exhaustive(fnd, p) ==
    p.rc = Len(reprt_codes) /\ p.div = "OFS" /\ p.y = Len(candidate_years)

\* The loops are left: a payload was found (break, break) or the last year of
\* the OFS loop of the last report code has been tried.
search_done(fnd, p) ==
    \/ fnd
    \/ p.rc = Len(reprt_codes) /\ p.div = "OFS" /\ p.y = Len(candidate_years)

\* Mutant of next_pos: the same combination is tried again.
next_pos_retry(p) == p

\* The place of the next call: for rc: (for y: CFS), (for y: OFS).
next_pos(p) ==
    IF p.y < Len(candidate_years) THEN [p EXCEPT !.y = p.y + 1]
    ELSE IF p.div = "CFS" THEN [p EXCEPT !.div = "OFS", !.y = 1]
    ELSE [rc |-> p.rc + 1, div |-> "CFS", y |-> 1]

\* Mutant of record_error: the errors are kept under one key for both bases.
record_error_one_key(f, fs_div, err, bsns_year, reprt_code) ==
    DictSet(DictSet(f, "LAST_ERR_CFS", err),
            "LAST_TRY_CFS", [year |-> bsns_year, reprt_code |-> reprt_code])

\* The except branch of one call.
record_error(f, fs_div, err, bsns_year, reprt_code) ==
    IF fs_div = "CFS"
    THEN DictSet(DictSet(f, "LAST_ERR_CFS", err),
                 "LAST_TRY_CFS", [year |-> bsns_year, reprt_code |-> reprt_code])
    ELSE DictSet(DictSet(f, "LAST_ERR_OFS", err),
                 "LAST_TRY_OFS", [year |-> bsns_year, reprt_code |-> reprt_code])

record_found(f, fs_div, reprt_code) ==
    DictSet(DictSet(f, "is_consolidated", fs_div = "CFS"),
            "report_code_used", reprt_code)

bad_ticker_row(t, nm) ==
    FundamentalRow(t, None, default_report_code, None, None, None,
                   DictSet(DictSet(EmptyDict, "FLAG_BAD_TICKER", TRUE), "name", nm))

no_corp_code_row(t, nm) ==
    FundamentalRow(t, None, default_report_code, None, None, None,
                   DictSet(DictSet(EmptyDict, "FLAG_NO_CORP_CODE", TRUE), "name", nm))

no_fs_row(t, nm, f) ==
    FundamentalRow(t, None, default_report_code, DictGet(f, "is_consolidated"),
                   None, None,
                   DictSet(DictMerge(DictSet(EmptyDict, "FLAG_NO_FS", TRUE), f),
                           "name", nm))

equity_parent_of(df) ==
    IF _pick_value_from_dart_df(df, EquityParentKeys) # None
    THEN _pick_value_from_dart_df(df, EquityParentKeys)
    ELSE _pick_value_from_dart_df(df, EquityTotalKeys)

ni_parent_of(df) ==
    IF _pick_value_from_dart_df(df, NiParentKeys) # None
    THEN _pick_value_from_dart_df(df, NiParentKeys)
    ELSE _pick_value_from_dart_df(df, NiTotalKeys)

\* flags after the value extraction
extraction_flags(f, df) ==
    LET f1 == IF /\ _pick_value_from_dart_df(df, EquityParentKeys) = None
                 /\ _pick_value_from_dart_df(df, EquityTotalKeys) # None
              THEN DictSet(f, "FLAG_EQUITY_SUB_TOTAL_EQUITY", TRUE) ELSE f
        f2 == IF /\ _pick_value_from_dart_df(df, NiParentKeys) = None
                 /\ _pick_value_from_dart_df(df, NiTotalKeys) # None
              THEN DictSet(f1, "FLAG_NI_SUB_NET_INCOME", TRUE) ELSE f1
    IN  f2

resolved_row(t, yr, f, df) ==
    FundamentalRow(t, yr,
                   IF "report_code_used" \in DOMAIN f THEN f["report_code_used"]
                   ELSE default_report_code,
                   DictGet(f, "is_consolidated"),
                   equity_parent_of(df), ni_parent_of(df),
                   extraction_flags(f, df))

\* The record appended once the loops are left.
finish_row(t, nm, yr, f, df, fnd) ==
    IF ~fnd \/ df = None \/ Len(Val(df).rows) = 0
    THEN no_fs_row(t, nm, f)
    ELSE resolved_row(t, yr, f, df)

(***************************************************************************)
(* The state of each component while another one is being checked          *)
(***************************************************************************)
NoLocals ==
    /\ tk = <<>>
    /\ name = None
    /\ corp_code = None
    /\ picked_year = None
    /\ fs_df = None
    /\ flags = EmptyDict
    /\ found = FALSE
    /\ pos = FirstPos

ResolverIdle ==
    /\ tickers = <<>>
    /\ ticker_to_name = None
    /\ max_companies = None
    /\ dart = EmptyDict
    /\ corp_df = None
    /\ use_tickers = <<>>
    /\ results = <<>>
    /\ iter = 0
    /\ NoLocals
    /\ res_pc = "idle"
    /\ fetch_log = <<>>
    /\ last_response = None

ClassifyIdle ==
    /\ flags_arg = None
    /\ verdict = None

SanitizeIdle ==
    /\ obj = None
    /\ sanitized = None
    /\ resanitized = None

StoreIdle ==
    /\ srim_result = {}
    /\ clock = 0
    /\ call = None
    /\ prev_call = None
    /\ before = {}
    /\ ncalls = 0

ExtractIdle ==
    /\ payload = None
    /\ extracted = None

SharesIdle ==
    /\ sh_pc = "idle"
    /\ sh_args = None
    /\ sh_at = 1
    /\ sh_try = 0
    /\ sh_flags = EmptyDict
    /\ sh_out = EmptyDict
    /\ sh_calls = <<>>

ConcIdle ==
    /\ conc_table = {}
    /\ conc_sessions = <<>>
    /\ conc_commits = <<>>

LateIdle == ExtractIdle /\ SharesIdle /\ ConcIdle

RunIdle ==
    /\ world = None
    /\ snapshots = {}
    /\ discount_rate_snapshot = {}
    /\ tickers_table = {}
    /\ market_snapshot = {}
    /\ fundamental_snapshot = {}
    /\ run_pc = "idle"
    /\ stages = {}
    /\ market_df = None
    /\ rate_read = None
    /\ calc_df = <<>>
    /\ out_rows = <<>>
    /\ next_row = 1
    /\ count = 0
    /\ tx = {}
    /\ summary = None
    /\ run_exit = "none"
    /\ db_open = FALSE
    /\ write_failed = FALSE
    /\ rate_changed = FALSE

SrimIdle ==
    /\ x = None
    /\ persistence = Num(1)
    /\ clamp_negative_residual = TRUE
    /\ y = None
    /\ srim_pc = "idle"

(***************************************************************************)
(* Inputs of the valuation engine                                          *)
(***************************************************************************)
\* The inputs are multiples of a step, from one step below zero up to
\* MaxInputStep steps.
MaxInputStep == 2

Steps == -1 .. MaxInputStep

Equities == {None} \cup {Some(Num(500 * k)) : k \in Steps}

NetIncomes == {None} \cup {Some(Num(50 * k)) : k \in -2 .. (MaxInputStep + 1)}

SharesOuts == {None} \cup {Some(Num(100 * k)) : k \in Steps}

MarketPrices == {None} \cup {Some(Num(12 * k)) : k \in Steps}

DiscountRates == {None} \cup {Some(Rat(k, 10)) : k \in Steps}

Persistences == {Num(0), Rat(1, 2), Num(1)}

SrimInputs ==
    [equity_parent : Equities, net_income_parent : NetIncomes,
     shares_out : SharesOuts, market_price : MarketPrices,
     discount_rate : DiscountRates]

SrimInit ==
    /\ x \in SrimInputs
    /\ persistence \in Persistences
    /\ clamp_negative_residual \in BOOLEAN
    /\ y = None
    /\ srim_pc = "call"
    /\ ResolverIdle
    /\ StoreIdle
    /\ ClassifyIdle
    /\ SanitizeIdle
    /\ RunIdle
    /\ LateIdle

CallComputeSrim ==
    /\ srim_pc = "call"
    /\ y' = Some(compute_srim(x, persistence, clamp_negative_residual))
    /\ srim_pc' = "done"
    /\ UNCHANGED <<x, persistence, clamp_negative_residual>>
    /\ UNCHANGED srimFrame

SrimNext == CallComputeSrim

SpecSrim == SrimInit /\ [][SrimNext]_vars

(***************************************************************************)
(* The resolver as a state machine                                         *)
(***************************************************************************)
\* The longest ticker list, and the largest max_companies, of a batch.
MaxTickers == 2

MaxLimit == 2

\* corp_df as load_corpcode_df returns it (stock_code zero-filled to 6)
CorpTable ==
    <<[stock_code |-> <<"0", "0", "5", "9", "3", "0">>, corp_code |-> "00126380"],
      [stock_code |-> <<"0", "0", "0", "0", "2", "0">>, corp_code |-> "00119195"]>>

CorpCodes == {CorpTable[q].corp_code : q \in 1 .. Len(CorpTable)}

RawTickers ==
    {<<"0", "0", "5", "9", "3", "0">>,       \* listed
     <<"5", "9", "3", "5", " ">>,            \* preferred share of 005930
     <<"2", "0">>,                           \* listed, not zero-filled
     <<"1", "2", "3", "4", "5", "6">>,       \* no corp code
     <<"0", "0", "5", "9", "3", "A">>,       \* not numeric
     <<"1", "0", "0", "5", "9", "3", "0">>}  \* seven digits

BatchTickers == {t \in RawTickers : Len(t) <= TickerWidth}

NameDict ==
    Some([q \in {<<"0", "0", "5", "9", "3", "0">>, <<"0", "0", "0", "0", "2", "0">>}
            |-> IF q[5] = "3" THEN "SamsungElec" ELSE "DongwhaPharm"])

SeqsUpTo(S, n) == UNION {[1 .. m -> S] : m \in 0 .. n}

Limits == {None} \cup {Some(q) : q \in 0 .. MaxLimit}

Service(a, b) == [c \in CorpCodes |-> IF c = "00126380" THEN a ELSE b]

\* One entity; the service of 00119195 may answer anything on each call.
ResolverInitOne ==
    /\ tickers \in [1 .. 1 -> RawTickers]
    /\ ticker_to_name = None
    /\ max_companies = None
    /\ dart = Service("quarterly", "any")

\* A batch of entities against services whose answers are fixed.
ResolverInitBatch ==
    /\ tickers \in SeqsUpTo(BatchTickers, MaxTickers)
    /\ ticker_to_name = NameDict
    /\ max_companies \in Limits
    /\ dart \in {Service("down", "standalone"), Service("quarterly", "down"),
                 Service("standalone", "empty")}

\* The state at the call, whatever the arguments.
ResolverAtCall ==
    /\ corp_df = None
    /\ use_tickers = <<>>
    /\ results = <<>>
    /\ iter = 0
    /\ NoLocals
    /\ res_pc = "start"
    /\ fetch_log = <<>>
    /\ last_response = None
    /\ SrimIdle
    /\ StoreIdle
    /\ ClassifyIdle
    /\ SanitizeIdle
    /\ RunIdle
    /\ LateIdle

ResolverInit ==
    /\ ResolverInitOne \/ ResolverInitBatch
    /\ ResolverAtCall

\* Lines 163-181: the tickers are normalised, the corpCode table is loaded
\* (load_corpcode_df may raise: nothing catches it) and the limit is applied.
ResStart ==
    /\ res_pc = "start"
    /\ \/ /\ corp_df' = Some(CorpTable)
          /\ use_tickers' =
                select_tickers([q \in 1 .. Len(tickers) |-> normalize(tickers[q])],
                               max_companies)
          /\ res_pc' = "loop"
       \/ /\ res_pc' = "raised"
          /\ UNCHANGED <<corp_df, use_tickers>>
    /\ UNCHANGED <<resArgs, results, iter, resLocals, fetch_log, last_response>>
    /\ UNCHANGED resFrame

\* Lines 183-222: the head of one iteration, up to the search loops.
BeginTicker ==
    /\ res_pc = "loop"
    /\ iter < Len(use_tickers)
    /\ LET t == normalize(use_tickers[iter + 1])
           nm == lookup_name(ticker_to_name, t)
           cc == resolve_corp_code(Val(corp_df), t)
       IN  /\ tk' = t
           /\ name' = nm
           /\ iter' = iter + 1
           /\ IF ~is_valid_ticker(t)
              THEN /\ results' = Append(results, bad_ticker_row(t, nm))
                   /\ UNCHANGED <<corp_code, picked_year, fs_df, flags, found, pos,
                                  res_pc>>
              ELSE IF cc = None
              THEN /\ results' = Append(results, no_corp_code_row(t, nm))
                   /\ corp_code' = cc
                   /\ UNCHANGED <<picked_year, fs_df, flags, found, pos, res_pc>>
              ELSE /\ corp_code' = cc
                   /\ picked_year' = None
                   /\ fs_df' = None
                   /\ flags' = EmptyDict
                   /\ found' = FALSE
                   /\ pos' = FirstPos
                   /\ res_pc' = "search"
                   /\ UNCHANGED results
    /\ UNCHANGED <<resArgs, corp_df, use_tickers, fetch_log, last_response>>
    /\ UNCHANGED resFrame

\* Lines 228-240 and 246-257: one call of dart_fnltt_all and what the loop
\* body does with it; when the loops are left by it, lines 261-302 as well.
Fetch ==
    /\ res_pc = "search"
    /\ LET yr == candidate_years[pos.y]
           rc == reprt_codes[pos.rc]
       IN  \E o \in Responses(dart[Val(corp_code)], yr, rc, pos.div) :
             LET hit == o.kind = "df" /\ Len(o.df.rows) > 0
                 df2 == IF o.kind = "df" THEN Some(o.df) ELSE fs_df
                 f2 == IF o.kind = "raise"
                       THEN record_error(flags, pos.div, o.err, yr, rc)
                       ELSE IF hit THEN record_found(flags, pos.div, rc)
                       ELSE flags
                 yr2 == IF hit THEN Some(yr) ELSE picked_year
                 fnd2 == found \/ hit
                 row == finish_row(tk, name, yr2, f2, df2, fnd2)
             IN  /\ fetch_log' =
                        Append(fetch_log,
                               [i |-> iter, corp_code |-> Val(corp_code),
                                bsns_year |-> yr, reprt_code |-> rc,
                                fs_div |-> pos.div,
                                data |-> IF hit THEN Some(o.df) ELSE None])
                 /\ last_response' = Some(o)
                 /\ fs_df' = df2
                 /\ picked_year' = yr2
                 /\ found' = fnd2
                 /\ IF search_done(fnd2, pos)
                    THEN /\ results' = Append(results, row)
                         /\ flags' = row.data_quality
                         /\ res_pc' = "loop"
                         /\ UNCHANGED pos
                    ELSE /\ flags' = f2
                         /\ pos' = next_pos(pos)
                         /\ UNCHANGED <<results, res_pc>>
    /\ UNCHANGED <<resArgs, corp_df, use_tickers, iter, tk, name, corp_code>>
    /\ UNCHANGED resFrame

\* Line 304: return results
ResReturn ==
    /\ res_pc = "loop"
    /\ iter = Len(use_tickers)
    /\ res_pc' = "done"
    /\ UNCHANGED <<resArgs, corp_df, use_tickers, results, iter, resLocals, fetch_log,
                   last_response>>
    /\ UNCHANGED resFrame

ResolverNext == ResStart \/ BeginTicker \/ Fetch \/ ResReturn

SpecResolver == ResolverInit /\ [][ResolverNext]_vars

(***************************************************************************)
(* upsert_srim_result (app/etl/stage3_srim.py)                             *)
(*                                                                         *)
(* A row of the batch carries its flags as JSON text, modelled as the      *)
(* sequence of its <<key, value text>> members; the column is jsonb,       *)
(* modelled as the mapping from key to value text.                         *)
(***************************************************************************)
\* cast(:flags as jsonb): an object keeps the last value of a repeated key
cast_jsonb(text) ==
    [key \in {text[q][1] : q \in 1 .. Len(text)} |->
        LET last == CHOOSE q \in 1 .. Len(text) :
                        /\ text[q][1] = key
                        /\ \A z \in (q + 1) .. Len(text) : text[z][1] # key
        IN  text[last][2]]

SameKey(e, r) == e.snapshot_id = r.snapshot_id /\ e.ticker = r.ticker

\* insert ... values (...): computed_at takes its default, now()
inserted_row(r, now) ==
    [snapshot_id |-> r.snapshot_id, ticker |-> r.ticker, bps |-> r.bps,
     roe |-> r.roe, r |-> r.r, fair_price |-> r.fair_price, gap_pct |-> r.gap_pct,
     flags |-> cast_jsonb(r.flags), computed_at |-> now]

\* Mutant of updated_row: the conflict is ignored (on conflict do nothing).
updated_row_do_nothing(e, r, now) == e

\* Mutant of updated_row: the flags column is left out of the update.
updated_row_keeping_flags(e, r, now) ==
    [e EXCEPT !.bps = r.bps, !.roe = r.roe, !.r = r.r,
              !.fair_price = r.fair_price, !.gap_pct = r.gap_pct,
              !.computed_at = now]

\* on conflict (snapshot_id, ticker) do update set ... = excluded. ...
updated_row(e, r, now) ==
    [e EXCEPT !.bps = r.bps, !.roe = r.roe, !.r = r.r,
              !.fair_price = r.fair_price, !.gap_pct = r.gap_pct,
              !.flags = cast_jsonb(r.flags), !.computed_at = now]

\* Mutant of execute_upsert: the snapshot's rows are deleted before the insert.
execute_upsert_replacing_snapshot(table, r, now) ==
    {e \in table : e.snapshot_id # r.snapshot_id} \cup {inserted_row(r, now)}

\* db.execute(stmt, r)
execute_upsert(table, r, now) ==
    IF \E e \in table : SameKey(e, r)
    THEN {IF SameKey(e, r) THEN updated_row(e, r, now) ELSE e : e \in table}
    ELSE table \cup {inserted_row(r, now)}

\* for r in rows: db.execute(stmt, r)
RECURSIVE execute_all(_, _, _)
execute_all(table, rows, now) ==
    IF rows = <<>> THEN table
    ELSE execute_all(execute_upsert(table, Head(rows), now), Tail(rows), now)

\* The resolver called for one entity, with a process that keeps running.
ResolverOneInit == ResolverInitOne /\ ResolverAtCall

SpecResolverOne == ResolverOneInit /\ [][ResolverNext]_vars /\ WF_vars(ResolverNext)

(***************************************************************************)
(* The result store as a state machine                                     *)
(***************************************************************************)
\* The number of calls of upsert_srim_result in one behaviour.
MaxCalls == 2

SnapshotIds == {"2026Q1", "2025Q4"}

StoreTickers == {"005930", "000020"}

\* bps, roe, r, fair_price, gap_pct and flags of a valued and of a rejected entity
StoreValues ==
    {[bps |-> Some(Num(10)), roe |-> Some(Rat(3, 20)), r |-> Some(Rat(1, 10)),
      fair_price |-> Some(Num(15)), gap_pct |-> Some(Num(25)),
      flags |-> <<<<"pv_residual_total", "500.0">>, <<"persistence_used", "1.0">>>>],
     [bps |-> None, roe |-> None, r |-> Some(Rat(1, 5)),
      fair_price |-> None, gap_pct |-> None,
      flags |-> <<<<"FLAG_EQUITY_NON_POSITIVE", "true">>,
                  <<"FLAG_SUSPICIOUS_NUMERIC", "true">>>>]}

StoreRow(sid, t, v) ==
    [snapshot_id |-> sid, ticker |-> t, bps |-> v.bps, roe |-> v.roe, r |-> v.r,
     fair_price |-> v.fair_price, gap_pct |-> v.gap_pct, flags |-> v.flags]

\* The batches for one snapshot: at most one row per ticker, in any order.
Batches(sid) ==
    {b \in UNION {[1 .. m -> {StoreRow(sid, t, v) : t \in StoreTickers, v \in StoreValues}]
                    : m \in 0 .. Cardinality(StoreTickers)} :
        \A q, z \in 1 .. Len(b) : q # z => b[q].ticker # b[z].ticker}

StoreInit ==
    /\ srim_result = {}
    /\ clock = 0
    /\ call = None
    /\ prev_call = None
    /\ before = {}
    /\ ncalls = 0
    /\ SrimIdle
    /\ ResolverIdle
    /\ ClassifyIdle
    /\ SanitizeIdle
    /\ RunIdle
    /\ LateIdle

\* upsert_srim_result(db, snapshot_id, rows), some time after the last call
UpsertSrimResult ==
    /\ ncalls < MaxCalls
    /\ \E sid \in SnapshotIds, dt \in 0 .. 1 :
          \E rows \in Batches(sid) :
             /\ clock' = clock + dt
             /\ srim_result' = execute_all(srim_result, rows, clock')
             /\ call' = Some([snapshot_id |-> sid, rows |-> rows, ret |-> Len(rows)])
    /\ prev_call' = call
    /\ before' = srim_result
    /\ ncalls' = ncalls + 1
    /\ UNCHANGED dbFrame

Next == UpsertSrimResult

Spec == StoreInit /\ [][Next]_vars

(***************************************************************************)
(* Python values                                                           *)
(*                                                                         *)
(* A value is a record of its type t and its content, in a field named     *)
(* after the type.  A float holds a fraction; the non-finite floats are the *)
(* fractions with denominator 0.                                           *)
(***************************************************************************)
PyNone == [t |-> "NoneType", none |-> "None"]

PyBool(b) == [t |-> "bool", bool |-> b]

PyStr(s) == [t |-> "str", chars |-> s]

PyFloat(f) == [t |-> "float", float |-> f]

PyDict(d) == [t |-> "dict", items |-> d]

PyList(l) == [t |-> "list", elems |-> l]

PyTuple(l) == [t |-> "tuple", members |-> l]

NaN == PyFloat([n |-> 0, d |-> 0])

Inf == PyFloat([n |-> 1, d |-> 0])

NegInf == PyFloat([n |-> -1, d |-> 0])

\* The orders in which a set can be iterated.
Listing(S) ==
    {l \in [1 .. Cardinality(S) -> S] : \A q, z \in DOMAIN l : q # z => l[q] # l[z]}

RECURSIVE Filter(_, _)
Filter(l, S) ==
    IF l = <<>> THEN <<>>
    ELSE (IF Head(l) \in S THEN <<Head(l)>> ELSE <<>>) \o Filter(Tail(l), S)

(***************************************************************************)
(* classify_flags (app/api/routes_srim.py)                                 *)
(***************************************************************************)
\* Mutant of EXCLUDE_FLAG_KEYS: the engine's rejection flags are excluding too.
EXCLUDE_FLAG_KEYS_with_rejections ==
    {"FLAG_MISSING_SHARES_OUT", "FLAG_MISSING_EQUITY", "FLAG_MISSING_NET_INCOME",
     "FLAG_EQUITY_NON_POSITIVE", "FLAG_SHARES_NON_POSITIVE",
     "FLAG_DISCOUNT_RATE_NON_POSITIVE"}

EXCLUDE_FLAG_KEYS ==
    {"FLAG_MISSING_SHARES_OUT", "FLAG_MISSING_EQUITY", "FLAG_MISSING_NET_INCOME"}

WARN_FLAG_KEYS ==
    {"FLAG_ROE_BELOW_R", "FLAG_ROE_NEGATIVE", "FLAG_NEGATIVE_RESIDUAL_CLAMPED"}

Verdict(quality, reasons) == [quality |-> quality, reasons |-> reasons]

\* Mutant of classify_flags: the warning set is looked at first.
classify_flags_warn_first(fl, exclude_order, warn_order) ==
    IF fl.t # "dict" THEN Verdict("WARN", <<"FLAG_INVALID_FLAGS_FORMAT">>)
    ELSE IF Filter(warn_order, DOMAIN fl.items) # <<>>
         THEN Verdict("WARN", Filter(warn_order, DOMAIN fl.items))
    ELSE IF Filter(exclude_order, DOMAIN fl.items) # <<>>
         THEN Verdict("EXCLUDE", Filter(exclude_order, DOMAIN fl.items))
    ELSE Verdict("OK", <<>>)

\* exclude_order and warn_order are the iteration orders of the two key sets.
classify_flags(fl, exclude_order, warn_order) ==
    IF fl.t # "dict" THEN Verdict("WARN", <<"FLAG_INVALID_FLAGS_FORMAT">>)
    ELSE IF Filter(exclude_order, DOMAIN fl.items) # <<>>
         THEN Verdict("EXCLUDE", Filter(exclude_order, DOMAIN fl.items))
    ELSE IF Filter(warn_order, DOMAIN fl.items) # <<>>
         THEN Verdict("WARN", Filter(warn_order, DOMAIN fl.items))
    ELSE Verdict("OK", <<>>)

\* Keys of a flag set: the two policy sets and two keys of neither.
ClassifyKeys ==
    EXCLUDE_FLAG_KEYS \cup WARN_FLAG_KEYS \cup {"FLAG_BAD_MARKET_PRICE", "roe_method"}

\* The arguments: dicts with any of the keys, and values that are no dict.
ClassifyArgs ==
    {PyDict([key \in K |-> PyBool(b)]) : K \in SUBSET ClassifyKeys, b \in BOOLEAN}
    \cup {PyNone, PyStr("FLAG_MISSING_EQUITY"),
          PyList(<<PyStr("FLAG_MISSING_EQUITY")>>)}

ClassifyInit ==
    /\ flags_arg \in ClassifyArgs
    /\ verdict = None
    /\ SrimIdle
    /\ ResolverIdle
    /\ StoreIdle
    /\ SanitizeIdle
    /\ RunIdle
    /\ LateIdle

CallClassifyFlags ==
    /\ verdict = None
    /\ \E exclude_order \in Listing(EXCLUDE_FLAG_KEYS), warn_order \in Listing(WARN_FLAG_KEYS) :
          verdict' = Some(classify_flags(flags_arg, exclude_order, warn_order))
    /\ UNCHANGED flags_arg
    /\ UNCHANGED classifyFrame

ClassifyNext == CallClassifyFlags

SpecClassify == ClassifyInit /\ [][ClassifyNext]_vars

(***************************************************************************)
(* sanitize_for_json (app/utils/json_sanitize.py)                          *)
(***************************************************************************)
\* Mutant of _is_bad_number: only NaN is looked for.
_is_bad_number_nan_only(o) == o.t = "float" /\ o.float.d = 0 /\ o.float.n = 0

_is_bad_number(o) == o.t = "float" /\ o.float.d = 0

RECURSIVE sanitize_for_json(_)
sanitize_for_json(o) ==
    IF _is_bad_number(o) THEN PyNone
    ELSE IF o.t = "dict" THEN PyDict([key \in DOMAIN o.items |-> sanitize_for_json(o.items[key])])
    ELSE IF o.t = "list" THEN PyList([q \in 1 .. Len(o.elems) |-> sanitize_for_json(o.elems[q])])
    ELSE o

\* The longest list or tuple of an argument.
MaxSeqLen == 2

PyLeaves == {PyFloat(Rat(3, 2)), NaN, Inf, NegInf, PyNone, PyBool(TRUE), PyStr("x")}

PyLists(V) == {PyList(l) : l \in SeqsUpTo(V, MaxSeqLen)}

PyTuples(V) == {PyTuple(l) : l \in SeqsUpTo(V, MaxSeqLen)}

PyDicts(V) == {PyDict(d) : d \in UNION {[K -> V] : K \in SUBSET {"a", "b"}}}

PyContainers == PyLists(PyLeaves) \cup PyTuples(PyLeaves) \cup PyDicts(PyLeaves)

\* Containers nested in a list, a dict and a tuple.
PyNested ==
    UNION {{PyList(<<NaN, c>>), PyDict([key \in {"flags"} |-> c]), PyTuple(<<c>>)} :
              c \in PyContainers}

SanitizeArgs == PyLeaves \cup PyContainers \cup PyNested

SanitizeInit ==
    /\ obj \in SanitizeArgs
    /\ sanitized = None
    /\ resanitized = None
    /\ SrimIdle
    /\ ResolverIdle
    /\ StoreIdle
    /\ ClassifyIdle
    /\ RunIdle
    /\ LateIdle

CallSanitize ==
    /\ sanitized = None
    /\ sanitized' = Some(sanitize_for_json(obj))
    /\ UNCHANGED <<obj, resanitized>>
    /\ UNCHANGED sanitizeFrame

CallSanitizeAgain ==
    /\ sanitized # None
    /\ resanitized = None
    /\ resanitized' = Some(sanitize_for_json(Val(sanitized)))
    /\ UNCHANGED <<obj, sanitized>>
    /\ UNCHANGED sanitizeFrame

SanitizeNext == CallSanitize \/ CallSanitizeAgain

SpecSanitize == SanitizeInit /\ [][SanitizeNext]_vars

(***************************************************************************)
(* run_stage3_srim (app/etl/stage3_srim.py): reading and computing         *)
(***************************************************************************)
\* safe_float_or_none: None for None, NaN and the infinities
safe_float_or_none(o) ==
    IF o = None THEN None ELSE IF Val(o).d = 0 THEN None ELSE o

\* Mutant of load_discount_rate: the stored row is not looked at.
load_discount_rate_ignoring_table(table, sid, default_rate) ==
    default_rate

\* select rate from discount_rate_snapshot where snapshot_id = :sid
\* order by as_of_date desc limit 1, with the default as fallback
load_discount_rate(table, sid, default_rate) ==
    LET found_rows == {e \in table : e.snapshot_id = sid}
    IN  IF found_rows = {} THEN default_rate
        ELSE LET row == CHOOSE e \in found_rows :
                            \A o \in found_rows : o.as_of_date <= e.as_of_date
             IN  IF row.rate # None THEN Val(row.rate) ELSE default_rate

CalcRow(m, f) ==
    [snapshot_id |-> m.snapshot_id, ticker |-> m.ticker,
     market_price |-> m.close_price, shares_out |-> m.shares_out,
     equity_parent |-> f.equity_parent, net_income_parent |-> f.net_income_parent]

\* Mutant of calc_ready: the shares_out filter is missing.
calc_ready_without_shares(m, f, sid) ==
    /\ m.snapshot_id = sid
    /\ f.snapshot_id = m.snapshot_id
    /\ f.ticker = m.ticker
    /\ m.close_price # None
    /\ f.equity_parent # None
    /\ f.net_income_parent # None

\* The join condition and the where clause of load_calc_ready_rows.
calc_ready(m, f, sid) ==
    /\ m.snapshot_id = sid
    /\ f.snapshot_id = m.snapshot_id
    /\ f.ticker = m.ticker
    /\ m.close_price # None
    /\ m.shares_out # None
    /\ f.equity_parent # None
    /\ f.net_income_parent # None

load_calc_ready_rows(market, fundamental, sid) ==
    {CalcRow(m, f) : <<m, f>> \in {mf \in market \X fundamental : calc_ready(mf[1], mf[2], sid)}}

\* Mutant of result_ticker: the ticker is read back as a number.
RECURSIVE result_ticker_as_number(_)
result_ticker_as_number(t) ==
    IF Len(t) > 1 /\ Head(t) = "0" THEN result_ticker_as_number(Tail(t)) ELSE t

\* str(row["ticker"]).strip().zfill(6)
result_ticker(t) == normalize(t)

\* SrimInput(...) of one calc-ready row
srim_input(row, rate) ==
    [equity_parent |-> row.equity_parent, net_income_parent |-> row.net_income_parent,
     shares_out |-> row.shares_out, market_price |-> row.market_price,
     discount_rate |-> Some(rate)]

\* The keys of compute_srim's flags whose value is True; the others hold floats.
SrimFlagKeys ==
    {"FLAG_MISSING_INPUT", "FLAG_EQUITY_NON_POSITIVE", "FLAG_SHARES_NON_POSITIVE",
     "FLAG_DISCOUNT_RATE_NON_POSITIVE", "FLAG_NEGATIVE_RESIDUAL_CLAMPED",
     "FLAG_BAD_MARKET_PRICE", "FLAG_ROE_NEGATIVE", "FLAG_ROE_BELOW_R"}

\* dict(y.flags) as a Python value
py_flags(fl) ==
    PyDict([key \in DOMAIN fl |->
               IF key \in SrimFlagKeys THEN PyBool(fl[key]) ELSE PyFloat(fl[key])])

\* Mutant of stage3_flags: the flags of compute_srim are left out of the row.
stage3_flags_without_engine_flags(i, o, p) ==
    LET f1 == DictSet(EmptyDict, "market_price_used", PyFloat(Val(i.market_price)))
        f2 == DictSet(f1, "persistence_used", PyFloat(p))
        f3 == sanitize_for_json(PyDict(f2)).items
        f4 == IF safe_float_or_none(o.bps) = None \/ safe_float_or_none(o.roe) = None
              THEN DictSet(f3, "FLAG_SUSPICIOUS_NUMERIC", PyBool(TRUE)) ELSE f3
        f5 == DictSet(f4, "roe_method", PyStr("NI_PARENT / EQUITY_PARENT"))
        f6 == DictSet(f5, "roe_is_annualized", PyBool(FALSE))
    IN  PyDict(DictSet(f6, "equity_is_average", PyBool(FALSE)))

\* flags of one result row, before json.dumps
stage3_flags(i, o, p) ==
    LET f1 == DictSet(py_flags(o.flags).items, "market_price_used",
                      PyFloat(Val(i.market_price)))
        f2 == DictSet(f1, "persistence_used", PyFloat(p))
        f3 == sanitize_for_json(PyDict(f2)).items
        f4 == IF safe_float_or_none(o.bps) = None \/ safe_float_or_none(o.roe) = None
              THEN DictSet(f3, "FLAG_SUSPICIOUS_NUMERIC", PyBool(TRUE)) ELSE f3
        f5 == DictSet(f4, "roe_method", PyStr("NI_PARENT / EQUITY_PARENT"))
        f6 == DictSet(f5, "roe_is_annualized", PyBool(FALSE))
    IN  PyDict(DictSet(f6, "equity_is_average", PyBool(FALSE)))

\* json.dumps(..., allow_nan=False) raises ValueError for a non-finite float
RECURSIVE json_rejects(_)
json_rejects(o) ==
    \/ _is_bad_number(o)
    \/ o.t = "dict" /\ \E key \in DOMAIN o.items : json_rejects(o.items[key])
    \/ o.t = "list" /\ \E q \in 1 .. Len(o.elems) : json_rejects(o.elems[q])
    \/ o.t = "tuple" /\ \E q \in 1 .. Len(o.members) : json_rejects(o.members[q])

\* The members of a JSON object, in the order of the dict.
RECURSIVE DictItems(_)
DictItems(d) ==
    IF DOMAIN d = {} THEN <<>>
    ELSE LET key == CHOOSE q \in DOMAIN d : TRUE
         IN  <<<<key, d[key]>>>> \o DictItems([q \in DOMAIN d \ {key} |-> d[q]])

\* json.dumps of a dict: None when it raises
json_dumps(o) == IF json_rejects(o) THEN None ELSE Some(DictItems(o.items))

\* json.dumps(flags, ensure_ascii=False, allow_nan=False) of one row
flags_text(row, rate, p, clamp) ==
    LET i == srim_input(row, rate)
    IN  json_dumps(stage3_flags(i, compute_srim(i, p, clamp), p))

\* config.py: DEFAULT_DISCOUNT_RATE
DEFAULT_DISCOUNT_RATE == Rat(1, 10)

\* Mutant of out_row: the row is valued with the default rate instead of the
\* rate read at the start of the run.
out_row_default_rate(row, sid, rate, p, clamp) ==
    LET o == compute_srim(srim_input(row, DEFAULT_DISCOUNT_RATE), p, clamp)
    IN  [snapshot_id |-> sid, ticker |-> result_ticker(row.ticker),
         bps |-> safe_float_or_none(o.bps), roe |-> safe_float_or_none(o.roe),
         r |-> safe_float_or_none(Some(DEFAULT_DISCOUNT_RATE)),
         fair_price |-> safe_float_or_none(o.srim_price),
         gap_pct |-> safe_float_or_none(o.gap_pct),
         flags |-> Val(flags_text(row, DEFAULT_DISCOUNT_RATE, p, clamp))]

\* One element of out_rows.
out_row(row, sid, rate, p, clamp) ==
    LET o == compute_srim(srim_input(row, rate), p, clamp)
    IN  [snapshot_id |-> sid, ticker |-> result_ticker(row.ticker),
         bps |-> safe_float_or_none(o.bps), roe |-> safe_float_or_none(o.roe),
         r |-> safe_float_or_none(Some(rate)),
         fair_price |-> safe_float_or_none(o.srim_price),
         gap_pct |-> safe_float_or_none(o.gap_pct),
         flags |-> Val(flags_text(row, rate, p, clamp))]

(***************************************************************************)
(* The tables and the writes of stages 0, 1 and 2 (app/etl/load.py,        *)
(* app/etl/run_etl.py)                                                     *)
(***************************************************************************)
\* snapshot_id_for: the quarter of the as-of date; a date is the number yyyymmdd
snapshot_id_for(dt) ==
    LET year == dt \div 10000
        month == (dt \div 100) % 100
    IN  <<year, "Q", ((month - 1) \div 3) + 1>>

upsert_snapshot(table, sid, as_of, note, now) ==
    IF \E e \in table : e.snapshot_id = sid
    THEN {IF e.snapshot_id = sid THEN [e EXCEPT !.as_of_date = as_of, !.note = note]
          ELSE e : e \in table}
    ELSE table \cup {[snapshot_id |-> sid, as_of_date |-> as_of, note |-> note,
                      created_at |-> now]}

upsert_discount_rate(table, sid, as_of, rate, source) ==
    IF \E e \in table : e.snapshot_id = sid
    THEN {IF e.snapshot_id = sid
          THEN [e EXCEPT !.as_of_date = as_of, !.rate = Some(rate), !.source = source]
          ELSE e : e \in table}
    ELSE table \cup {[snapshot_id |-> sid, as_of_date |-> as_of, rate |-> Some(rate),
                      source |-> source]}

\* insert into tickers ... on conflict (ticker) do update, one row
upsert_ticker(table, row) ==
    {e \in table : e.ticker # row.ticker}
        \cup {[ticker |-> row.ticker, name |-> row.name, market |-> row.market]}

\* insert into market_snapshot ... on conflict (snapshot_id, ticker) do update
upsert_market_row(table, sid, row) ==
    {e \in table : ~(e.snapshot_id = sid /\ e.ticker = row.ticker)}
        \cup {[snapshot_id |-> sid, ticker |-> row.ticker, close_price |-> row.close_price,
               market_cap |-> row.market_cap, shares_out |-> row.shares_out]}

\* update market_snapshot set shares_out = ... where snapshot_id and ticker
update_shares_out(table, sid, t, shares) ==
    {IF e.snapshot_id = sid /\ e.ticker = t THEN [e EXCEPT !.shares_out = shares]
     ELSE e : e \in table}

\* insert into fundamental_snapshot ... on conflict (snapshot_id, ticker) do update
upsert_fundamental_row(table, sid, row) ==
    {e \in table : ~(e.snapshot_id = sid /\ e.ticker = row.ticker)}
        \cup {[snapshot_id |-> sid, ticker |-> row.ticker, fs_year |-> row.fs_year,
               report_code |-> row.report_code, is_consolidated |-> row.is_consolidated,
               equity_parent |-> row.equity_parent,
               net_income_parent |-> row.net_income_parent,
               data_quality |-> row.data_quality]}

(***************************************************************************)
(* What KRX and DART report                                                *)
(***************************************************************************)
Entity(code, nm, close, filing, shares) ==
    [code |-> code, name |-> nm, close |-> close, filing |-> filing, shares |-> shares]

\* A company with a close, a filing with the controlling-owner accounts and a
\* share count.
Samsung ==
    Entity(<<"0", "0", "5", "9", "3", "0">>, "SamsungElec", Some(Num(10)),
           Some(DfConsolidated), Some(Num(100)))

Dongwha(close, filing, shares) == Entity(<<"2", "0">>, "DongwhaPharm", close, filing, shares)

\* totals only, capital impaired: equity -500, net income -150
DfImpaired ==
    DataFrame(<<Account(<<"jabonchonggye">>, <<"-", "5", "0", "0">>),
                Account(<<"danggi", "suniik">>, <<"-", "1", "5", "0">>)>>)

DongwhaVariants ==
    {Dongwha(Some(Num(12)), Some(DfStandalone), Some(Num(100))),  \* complete
     Dongwha(Some(Num(12)), Some(DfOther), Some(Num(100))),       \* accounts not in the filing
     Dongwha(Some(Num(12)), None, Some(Num(100))),                \* no filing
     Dongwha(Some(Num(12)), Some(DfStandalone), None),            \* no share count
     Dongwha(None, Some(DfStandalone), Some(Num(100))),           \* no close
     Dongwha(Some(Num(12)), Some(DfImpaired), Some(Num(100))),    \* equity below zero
     Dongwha(Some(Num(12)), Some(DfStandalone), Some(Num(0)))}    \* zero shares issued

\* A missing number of a numeric DataFrame column reaches the table as NULL or
\* as NaN, depending on the column's dtype and on the driver.
Worlds ==
    {[entities |-> <<Samsung, d>>, missing |-> how] :
        d \in DongwhaVariants, how \in {"NULL", "NaN"}}

\* A DataFrame cell as the parameter of the insert.
to_param(o, how) == IF o = None /\ how = "NaN" THEN Some(NaN.float) ELSE o

\* fetch_kospi_universe (app/etl/sources_krx.py)
fetch_kospi_universe(w) ==
    [q \in 1 .. Len(w.entities) |->
        [ticker |-> zfill(w.entities[q].code, TickerWidth), name |-> w.entities[q].name,
         market |-> "KOSPI", close_price |-> w.entities[q].close,
         market_cap |-> None, shares_out |-> None]]

EntityOf(w, t) ==
    CHOOSE e \in {w.entities[q] : q \in 1 .. Len(w.entities)} :
        normalize(zfill(e.code, TickerWidth)) = t

\* What fetch_latest_annual_fundamentals appends for one ticker: the first
\* fetch returns the filing, or every fetch fails.
fundamental_row(w, t, t2n) ==
    IF EntityOf(w, t).filing = None
    THEN finish_row(t, lookup_name(t2n, t), None,
                    record_error(EmptyDict, "OFS", ErrNoData, candidate_years[3],
                                 reprt_codes[4]),
                    None, FALSE)
    ELSE finish_row(t, lookup_name(t2n, t), Some(candidate_years[1]),
                    record_found(EmptyDict, "CFS", reprt_codes[1]),
                    EntityOf(w, t).filing, TRUE)

\* tickers[:dart_limit] if dart_limit else tickers
shares_target(tickers_norm, dart_limit) ==
    IF dart_limit = None \/ dart_limit = Some(0) THEN tickers_norm
    ELSE select_tickers(tickers_norm, dart_limit)

(***************************************************************************)
(* stage0, stage1, stage2 (app/etl/run_etl.py) as writes of the tables     *)
(***************************************************************************)
\* upsert_tickers(db, tickers_df)
RECURSIVE stage1_tickers(_, _)
stage1_tickers(table, mdf) ==
    IF mdf = <<>> THEN table
    ELSE stage1_tickers(upsert_ticker(table, Head(mdf)), Tail(mdf))

\* upsert_market_snapshot(db, sid, market_df)
RECURSIVE stage1_market(_, _, _, _)
stage1_market(table, sid, mdf, how) ==
    IF mdf = <<>> THEN table
    ELSE stage1_market(
             upsert_market_row(table, sid,
                 [Head(mdf) EXCEPT !.close_price = to_param(Head(mdf).close_price, how)]),
             sid, Tail(mdf), how)

\* tickers = [str(x).strip().zfill(6) for x in tickers_raw]
stage2_tickers(mdf) == [q \in 1 .. Len(mdf) |-> normalize(mdf[q].ticker)]

stage2_names(mdf) ==
    Some([t \in {normalize(mdf[q].ticker) : q \in 1 .. Len(mdf)} |->
             (CHOOSE row \in {mdf[q] : q \in 1 .. Len(mdf)} :
                  normalize(row.ticker) = t).name])

\* the loop over shares_map: a ticker without a share count is skipped
RECURSIVE update_shares(_, _, _, _)
update_shares(table, sid, w, tks) ==
    IF tks = <<>> THEN table
    ELSE update_shares(
             IF EntityOf(w, Head(tks)).shares = None THEN table
             ELSE update_shares_out(table, sid, Head(tks), EntityOf(w, Head(tks)).shares),
             sid, w, Tail(tks))

stage2_market(table, sid, w, mdf, dart_limit) ==
    update_shares(table, sid, w, shares_target(stage2_tickers(mdf), dart_limit))

\* One row of fund_df after pd.to_numeric.
fund_df_row(row, how) ==
    [row EXCEPT !.equity_parent = to_param(row.equity_parent, how),
                !.net_income_parent = to_param(row.net_income_parent, how)]

\* upsert_fundamental_snapshot(db, sid, fund_df)
RECURSIVE upsert_fundamentals(_, _, _, _, _)
upsert_fundamentals(table, sid, w, tks, t2n) ==
    IF tks = <<>> THEN table
    ELSE upsert_fundamentals(
             upsert_fundamental_row(table, sid,
                 fund_df_row(fundamental_row(w, Head(tks), t2n), w.missing)),
             sid, w, Tail(tks), t2n)

stage2_fundamental(table, sid, w, mdf, dart_limit) ==
    upsert_fundamentals(table, sid, w, select_tickers(stage2_tickers(mdf), dart_limit),
                        stage2_names(mdf))

(***************************************************************************)
(* run (app/etl/run_etl.py) as a state machine                             *)
(***************************************************************************)
\* --as-of
AsOf == 20260104

Sid == snapshot_id_for(AsOf)

\* --r
Rates == {Num(0), Rat(1, 10)}

\* --note
Notes == {None, Some("monthly")}

\* --dart-limit
DartLimits == {None, Some(1)}

\* --persistence and --clamp-negative-residual keep their defaults
RunPersistence == Num(1)

RunClamp == TRUE

StageNames == <<"stage0", "stage1", "stage2", "stage3">>

\* --stages: the lists of distinct stage numbers, in any order
StageLists == UNION {Listing(S) : S \in SUBSET {0, 1, 2, 3}}

\* Mutant of goto: the next stage is executed whether it was requested or not.
goto_ignoring_request(stgs, after) ==
    IF after >= 3 THEN "return" ELSE StageNames[after + 2]

\* The next "if k in stages" that holds, after stage `after`.
goto(stgs, after) ==
    IF {k \in stgs : k > after} = {} THEN "return"
    ELSE StageNames[(CHOOSE k \in stgs : k > after /\ \A o \in stgs : o > after => k <= o) + 1]

Stage3Start ==
    /\ rate_read = None
    /\ calc_df = <<>>
    /\ out_rows = <<>>
    /\ next_row = 1
    /\ count = 0
    /\ tx = {}

RunInit ==
    /\ world \in Worlds
    /\ snapshots = {}
    /\ discount_rate_snapshot = {}
    /\ tickers_table = {}
    /\ market_snapshot = {}
    /\ fundamental_snapshot = {}
    /\ run_pc = "idle"
    /\ stages = {}
    /\ market_df = None
    /\ Stage3Start
    /\ summary = None
    /\ run_exit = "none"
    /\ db_open = FALSE
    /\ write_failed = FALSE
    /\ rate_changed = FALSE
    /\ SrimIdle
    /\ ResolverIdle
    /\ StoreIdle
    /\ ClassifyIdle
    /\ SanitizeIdle
    /\ LateIdle

\* run(as_of, snapshot_id=None, stages, ...): db = SessionLocal()
RunBegin ==
    /\ run_pc = "idle"
    /\ \E lst \in StageLists :
          /\ stages' = {lst[q] : q \in 1 .. Len(lst)}
          /\ run_pc' = goto({lst[q] : q \in 1 .. Len(lst)}, -1)
    /\ market_df' = None
    /\ rate_read' = None
    /\ calc_df' = <<>>
    /\ out_rows' = <<>>
    /\ next_row' = 1
    /\ count' = 0
    /\ tx' = {}
    /\ summary' = None
    /\ run_exit' = "none"
    /\ db_open' = TRUE
    /\ write_failed' = FALSE
    /\ rate_changed' = FALSE
    /\ UNCHANGED <<world, tableVars, srim_result, runFrame>>

\* stage0(db, sid, as_of, r, note)
Stage0 ==
    /\ run_pc = "stage0"
    /\ \E rate \in Rates, note \in Notes :
          /\ snapshots' = upsert_snapshot(snapshots, Sid, AsOf, note, clock)
          /\ discount_rate_snapshot' =
                 upsert_discount_rate(discount_rate_snapshot, Sid, AsOf, rate, "manual")
    /\ run_pc' = goto(stages, 0)
    /\ UNCHANGED <<world, tickers_table, market_snapshot, fundamental_snapshot, stages,
                   market_df, stage3Locals, run_exit, db_open, write_failed, rate_changed,
                   srim_result, runFrame>>

\* ForeignKey("snapshots.snapshot_id") of market_snapshot (app/models.py)
snapshot_exists(table, sid) == \E e \in table : e.snapshot_id = sid

\* market_df = stage1(db, sid, as_of): upsert_tickers commits, then the insert
\* into market_snapshot raises when the snapshot it refers to does not exist
Stage1 ==
    /\ run_pc = "stage1"
    /\ tickers_table' = stage1_tickers(tickers_table, fetch_kospi_universe(world))
    /\ IF snapshot_exists(snapshots, Sid)
       THEN /\ market_df' = Some(fetch_kospi_universe(world))
            /\ market_snapshot' =
                   stage1_market(market_snapshot, Sid, Val(market_df'), world.missing)
            /\ run_pc' = goto(stages, 1)
       ELSE /\ run_pc' = "raised"
            /\ UNCHANGED <<market_df, market_snapshot>>
    /\ UNCHANGED <<world, snapshots, discount_rate_snapshot, fundamental_snapshot, stages,
                   stage3Locals, run_exit, db_open, write_failed, rate_changed, srim_result,
                   runFrame>>

\* stage2(db, sid, market_df, dart_limit), or the RuntimeError without market_df
Stage2 ==
    /\ run_pc = "stage2"
    /\ IF market_df = None
       THEN /\ run_pc' = "raised"
            /\ UNCHANGED <<market_snapshot, fundamental_snapshot>>
       ELSE \E dart_limit \in DartLimits :
               /\ market_snapshot' =
                      stage2_market(market_snapshot, Sid, world, Val(market_df), dart_limit)
               /\ fundamental_snapshot' =
                      stage2_fundamental(fundamental_snapshot, Sid, world, Val(market_df),
                                         dart_limit)
               /\ run_pc' = goto(stages, 2)
    /\ UNCHANGED <<world, snapshots, discount_rate_snapshot, tickers_table, stages,
                   market_df, stage3Locals, run_exit, db_open, write_failed, rate_changed,
                   srim_result, runFrame>>

\* run_stage3_srim: r = load_discount_rate(db, snapshot_id, default_discount_rate)
S3LoadRate ==
    /\ run_pc = "stage3"
    /\ rate_read' = Some(load_discount_rate(discount_rate_snapshot, Sid,
                                            DEFAULT_DISCOUNT_RATE))
    /\ run_pc' = "s3_rows"
    /\ UNCHANGED <<world, tableVars, stages, market_df, calc_df, out_rows, next_row, count,
                   tx, summary, run_exit, db_open, write_failed, rate_changed, srim_result,
                   runFrame>>

\* df = load_calc_ready_rows(db, snapshot_id): the rows come in any order
S3LoadRows ==
    /\ run_pc = "s3_rows"
    /\ calc_df' \in Listing(load_calc_ready_rows(market_snapshot, fundamental_snapshot, Sid))
    /\ run_pc' = "s3_compute"
    /\ UNCHANGED <<world, tableVars, stages, market_df, rate_read, out_rows, next_row,
                   count, tx, summary, run_exit, db_open, write_failed, rate_changed, srim_result,
                   runFrame>>

\* for _, row in df.iterrows(): ... out_rows.append(...)
S3Compute ==
    /\ run_pc = "s3_compute"
    /\ IF \E q \in 1 .. Len(calc_df) :
             flags_text(calc_df[q], Val(rate_read), RunPersistence, RunClamp) = None
       THEN /\ run_pc' = "raised"
            /\ UNCHANGED <<out_rows, tx>>
       ELSE /\ out_rows' = [q \in 1 .. Len(calc_df) |->
                               out_row(calc_df[q], Sid, Val(rate_read), RunPersistence,
                                       RunClamp)]
            /\ tx' = srim_result
            /\ run_pc' = "s3_upsert"
    /\ UNCHANGED <<world, tableVars, stages, market_df, rate_read, calc_df, next_row, count,
                   summary, run_exit, db_open, write_failed, rate_changed, srim_result, runFrame>>

\* Mutant of after_execute: the failed row is skipped and the loop goes on.
after_execute_skipping_failures(ok, table, row, now, at, cnt) ==
    IF ok
    THEN [tx |-> execute_upsert(table, row, now), next_row |-> at + 1, count |-> cnt + 1,
          pc |-> "s3_upsert"]
    ELSE [tx |-> table, next_row |-> at + 1, count |-> cnt, pc |-> "s3_upsert"]

\* One pass of "for r in rows: db.execute(stmt, r); count += 1": the statement
\* succeeds, or it raises and the exception leaves the loop.
after_execute(ok, table, row, now, at, cnt) ==
    IF ok
    THEN [tx |-> execute_upsert(table, row, now), next_row |-> at + 1, count |-> cnt + 1,
          pc |-> "s3_upsert"]
    ELSE [tx |-> table, next_row |-> at, count |-> cnt, pc |-> "raised"]

S3Execute ==
    /\ run_pc = "s3_upsert"
    /\ next_row <= Len(out_rows)
    /\ \E ok \in BOOLEAN :
          LET after == after_execute(ok, tx, out_rows[next_row], clock, next_row, count)
          IN  /\ tx' = after.tx
              /\ next_row' = after.next_row
              /\ count' = after.count
              /\ run_pc' = after.pc
              /\ write_failed' = (write_failed \/ ~ok)
    /\ UNCHANGED <<world, tableVars, stages, market_df, rate_read, calc_df, out_rows,
                   summary, run_exit, db_open, rate_changed, srim_result, runFrame>>

\* The summary of run_stage3_srim.
stage3_summary(sid, rate, rows, upserted) ==
    [snapshot_id |-> sid, discount_rate |-> rate, calc_rows |-> Len(rows),
     upserted_rows |-> upserted]

\* db.commit() (skipped for an empty batch), return count, return the summary
S3Return ==
    /\ run_pc = "s3_upsert"
    /\ next_row > Len(out_rows)
    /\ srim_result' = IF out_rows = <<>> THEN srim_result ELSE tx
    /\ summary' = Some(stage3_summary(Sid, Val(rate_read), calc_df, count))
    /\ run_pc' = "return"
    /\ UNCHANGED <<world, tableVars, stages, market_df, rate_read, calc_df, out_rows,
                   next_row, count, tx, run_exit, db_open, write_failed, rate_changed, runFrame>>

\* The locals of run and of run_stage3_srim are gone once run is left.
RunLeft ==
    /\ run_pc' = "idle"
    /\ stages' = {}
    /\ market_df' = None
    /\ rate_read' = None
    /\ calc_df' = <<>>
    /\ out_rows' = <<>>
    /\ next_row' = 1
    /\ count' = 0
    /\ tx' = {}
    /\ summary' = None
    /\ write_failed' = FALSE
    /\ rate_changed' = FALSE

\* return {...}; finally: db.close()
RunReturn ==
    /\ run_pc = "return"
    /\ run_exit' = "returned"
    /\ db_open' = FALSE
    /\ RunLeft
    /\ UNCHANGED <<world, tableVars, srim_result, runFrame>>

\* The exception leaves run; finally: db.close() drops the open transaction
RunRaise ==
    /\ run_pc = "raised"
    /\ run_exit' = "raised"
    /\ db_open' = FALSE
    /\ RunLeft
    /\ UNCHANGED <<world, tableVars, srim_result, runFrame>>

\* Another session calls upsert_discount_rate with another rate while stage 3
\* is under way.
OtherWriter ==
    /\ run_pc \in {"s3_rows", "s3_compute", "s3_upsert"}
    /\ ~rate_changed
    /\ snapshot_exists(snapshots, Sid)
    /\ \E rate \in Rates :
          /\ rate # load_discount_rate(discount_rate_snapshot, Sid, DEFAULT_DISCOUNT_RATE)
          /\ discount_rate_snapshot' =
                 upsert_discount_rate(discount_rate_snapshot, Sid, AsOf, rate, "manual")
    /\ rate_changed' = TRUE
    /\ UNCHANGED <<world, snapshots, tickers_table, market_snapshot, fundamental_snapshot,
                   run_pc, stages, market_df, stage3Locals, run_exit, db_open, write_failed,
                   srim_result, runFrame>>

RunNext ==
    \/ RunBegin
    \/ Stage0
    \/ Stage1
    \/ Stage2
    \/ S3LoadRate
    \/ S3LoadRows
    \/ S3Compute
    \/ S3Execute
    \/ S3Return
    \/ RunReturn
    \/ RunRaise
    \/ OtherWriter

SpecRun == RunInit /\ [][RunNext]_vars

(***************************************************************************)
(* The value extraction of fetch_latest_annual_fundamentals, applied to    *)
(* the payloads the accounts below can make up                             *)
(***************************************************************************)
\* The most rows a payload holds.
MaxRows == 3

\* account_nm and thstrm_amount of the accounts a filing may list
Accounts ==
    {Account(<<"jibaegieop", "soyuju", "jibun">>, <<"9", "0", "0">>),
     Account(<<"jabonchonggye">>, <<"2", ",", "0", "0", "0">>),
     Account(<<"jibaegieop", "soyuju", "jibun", "danggi", "suniik">>, <<"9", "0">>),
     Account(<<"danggi", "suniik">>, <<"1", "0", "0">>),
     Account(<<"maechulaek">>, <<"5", "0", "0">>)}

\* The non-empty payloads: each account at most once, in any order.
AccountPayloads ==
    {DataFrame(rows) : rows \in
        {l \in UNION {[1 .. m -> Accounts] : m \in 1 .. MaxRows} :
            \A q, z \in 1 .. Len(l) : q # z => l[q] # l[z]}}

ExtractInit ==
    /\ payload \in {Some(p) : p \in AccountPayloads}
    /\ extracted = None
    /\ SharesIdle
    /\ ConcIdle
    /\ SrimIdle
    /\ ResolverIdle
    /\ StoreIdle
    /\ ClassifyIdle
    /\ SanitizeIdle
    /\ RunIdle

\* Lines 275-302, after the search stopped at a consolidated annual payload
CallExtract ==
    /\ extracted = None
    /\ extracted' = Some(resolved_row(<<"0", "0", "0", "0", "2", "0">>,
                                      Some(candidate_years[1]),
                                      record_found(EmptyDict, "CFS", reprt_codes[1]),
                                      payload))
    /\ UNCHANGED payload
    /\ UNCHANGED extractFrame

ExtractNext == CallExtract

SpecExtract == ExtractInit /\ [][ExtractNext]_vars

(***************************************************************************)
(* Claims about compute_srim (checked under SpecSrim)                      *)
(***************************************************************************)
out == Val(y)

AllNull(o) ==
    o.bps = None /\ o.roe = None /\ o.srim_price = None /\ o.gap_pct = None

Missing(i) ==
    \/ i.equity_parent = None
    \/ i.net_income_parent = None
    \/ i.shares_out = None
    \/ i.discount_rate = None

NonPositive(o) == o # None /\ Val(o).n <= 0

PreconditionsPass(i) ==
    /\ ~Missing(i)
    /\ Val(i.equity_parent).n > 0
    /\ Val(i.shares_out).n > 0
    /\ Val(i.discount_rate).n > 0

\* The flag the claimed order of checks asks for: missing, equity, shares, rate.
FirstFailing(i) ==
    CASE Missing(i) -> "FLAG_MISSING_INPUT"
      [] ~Missing(i) /\ NonPositive(i.equity_parent) -> "FLAG_EQUITY_NON_POSITIVE"
      [] ~Missing(i) /\ ~NonPositive(i.equity_parent) /\ NonPositive(i.shares_out)
            -> "FLAG_SHARES_NON_POSITIVE"
      [] OTHER -> "FLAG_DISCOUNT_RATE_NON_POSITIVE"

\* C1: when a precondition of compute_srim fails, bps, roe, srim_price and
\* gap_pct are all null and the flags hold exactly one key, the flag of the
\* first failing precondition in the order missing input, equity <= 0,
\* shares <= 0, discount rate <= 0, also when several fail at once.
C1_FirstFailingPrecondition ==
    (srim_pc = "done" /\ ~PreconditionsPass(x)) =>
        /\ AllNull(out)
        /\ out.spread = None
        /\ DOMAIN out.flags = {FirstFailing(x)}

\* C1 witness: equity, shares and discount rate are all non-positive at once
\* and the call has returned with the equity flag alone.
C1_Witness ==
    /\ srim_pc = "done"
    /\ ~Missing(x)
    /\ NonPositive(x.equity_parent)
    /\ NonPositive(x.shares_out)
    /\ NonPositive(x.discount_rate)
    /\ DOMAIN out.flags = {"FLAG_EQUITY_NON_POSITIVE"}

\* clamp(residual) of the claimed formula, residual = (ni/equity - rate) * equity
ClaimedResidual(i) ==
    RMul(RSub(RDiv(Val(i.net_income_parent), Val(i.equity_parent)),
              Val(i.discount_rate)),
         Val(i.equity_parent))

ClaimedClamp(r, clamp) == IF clamp /\ r.n < 0 THEN Num(0) ELSE r

ExampleInput ==
    [equity_parent |-> Some(Num(1000)), net_income_parent |-> Some(Num(150)),
     shares_out |-> Some(Num(100)), market_price |-> Some(Num(12)),
     discount_rate |-> Some(Rat(1, 10))]

RoeBelowRate(i) ==
    RLt(RDiv(Val(i.net_income_parent), Val(i.equity_parent)), Val(i.discount_rate))

\* C3: with clamping enabled and ROE < discount rate the residual income used
\* in the present value is exactly 0 (so pv is 0 and fair price = bps for every
\* persistence) and FLAG_NEGATIVE_RESIDUAL_CLAMPED is recorded; the flag is
\* recorded in no other case.
C3_ClampToZero ==
    srim_pc = "done" =>
        /\ (PreconditionsPass(x) /\ clamp_negative_residual /\ RoeBelowRate(x)) =>
              /\ out.flags["pv_residual_total"] = Num(0)
              /\ out.srim_price = out.bps
              /\ "FLAG_NEGATIVE_RESIDUAL_CLAMPED" \in DOMAIN out.flags
        /\ "FLAG_NEGATIVE_RESIDUAL_CLAMPED" \in DOMAIN out.flags =>
              /\ PreconditionsPass(x)
              /\ clamp_negative_residual
              /\ RoeBelowRate(x)

\* C3 witness: a clamped valuation with a non-zero persistence factor.
C3_Witness ==
    /\ srim_pc = "done"
    /\ PreconditionsPass(x)
    /\ clamp_negative_residual
    /\ RoeBelowRate(x)
    /\ persistence = Rat(1, 2)
    /\ out.srim_price = out.bps

MarketPricePositive(i) == i.market_price # None /\ Val(i.market_price).n > 0

\* C4: when the four preconditions pass the fair price is non-null whatever the
\* market price; gap_pct is non-null exactly when the market price is present
\* and > 0, and otherwise gap_pct is null and FLAG_BAD_MARKET_PRICE is recorded.
C4_BadMarketPriceNeverBlocks ==
    (srim_pc = "done" /\ PreconditionsPass(x)) =>
        /\ out.srim_price # None
        /\ (out.gap_pct # None) <=> MarketPricePositive(x)
        /\ ~MarketPricePositive(x) =>
              /\ out.gap_pct = None
              /\ "FLAG_BAD_MARKET_PRICE" \in DOMAIN out.flags

\* C4 witness: a valuation with a negative market price: a fair price, no gap.
C4_Witness ==
    /\ srim_pc = "done"
    /\ PreconditionsPass(x)
    /\ x.market_price # None
    /\ Val(x.market_price).n < 0
    /\ out.srim_price # None
    /\ out.gap_pct = None


(***************************************************************************)
(* Claims about fetch_latest_annual_fundamentals (under SpecResolver)      *)
(***************************************************************************)
\* The calls of dart_fnltt_all issued in iteration i of the loop.
EntityLog(i) == SelectSeq(fetch_log, LAMBDA e : e.i = i)

\* The n-th combination of the claimed order: report type, then year, then
\* for one (report type, year) pair CFS first and OFS right after it.
ClaimedCombo(n) ==
    [reprt_code |-> reprt_codes[((n - 1) \div (2 * Len(candidate_years))) + 1],
     bsns_year |-> candidate_years[(((n - 1) % (2 * Len(candidate_years))) \div 2) + 1],
     fs_div |-> IF (n - 1) % 2 = 0 THEN "CFS" ELSE "OFS"]

Combo(e) ==
    [reprt_code |-> e.reprt_code, bsns_year |-> e.bsns_year, fs_div |-> e.fs_div]

\* C5: the resolver attempts report types in priority order, within a report
\* type the years in order, and for each (report type, year) pair the
\* consolidated basis and then the standalone basis of that same pair, before
\* the next year.  (The code runs all years on CFS, then all years on OFS.)
C5_ClaimedAttemptOrder ==
    \A i \in 1 .. iter :
        \A n \in 1 .. Len(EntityLog(i)) : Combo(EntityLog(i)[n]) = ClaimedCombo(n)

ExpectedEquity(df) ==
    CASE df = DfConsolidated -> Some(Num(900))
      [] df = DfStandalone -> Some(Num(2000))
      [] OTHER -> None

ExpectedNetIncome(df) ==
    CASE df = DfConsolidated -> Some(Num(90))
      [] df = DfStandalone -> Some(Num(-150))
      [] OTHER -> None

\* C6: the search of an entity stops at the first attempted combination that
\* returns a non-empty payload: no call is issued for the entity after it, the
\* record's fs_year, report_code and is_consolidated are those of that
\* combination and its values are the ones extracted from that payload.
C6_StopsAtFirstPayload ==
    \A i \in 1 .. iter :
        LET L == EntityLog(i)
        IN  /\ \A n \in 1 .. (Len(L) - 1) : L[n].data = None
            /\ (L # <<>> /\ L[Len(L)].data # None) =>
                  /\ i <= Len(results)
                  /\ results[i].fs_year = Some(L[Len(L)].bsns_year)
                  /\ results[i].report_code = L[Len(L)].reprt_code
                  /\ results[i].is_consolidated = Some(L[Len(L)].fs_div = "CFS")
                  /\ results[i].equity_parent = ExpectedEquity(Val(L[Len(L)].data))
                  /\ results[i].net_income_parent
                        = ExpectedNetIncome(Val(L[Len(L)].data))

\* C6 witness: a record resolved from the payload of the fifth call made for
\* its entity, a standalone payload of the annual report.
C6_Witness ==
    \E i \in 1 .. Len(results) :
        /\ Len(EntityLog(i)) = 5
        /\ EntityLog(i)[5].data = Some(DfStandalone)
        /\ results[i].is_consolidated = Some(FALSE)
        /\ results[i].equity_parent = Some(Num(2000))

TryKey(fs_div) == IF fs_div = "CFS" THEN "LAST_TRY_CFS" ELSE "LAST_TRY_OFS"

ErrKey(fs_div) == IF fs_div = "CFS" THEN "LAST_ERR_CFS" ELSE "LAST_ERR_OFS"

LastKeys == {"LAST_TRY_CFS", "LAST_ERR_CFS", "LAST_TRY_OFS", "LAST_ERR_OFS"}

Attempt(e) == [year |-> e.bsns_year, reprt_code |-> e.reprt_code]

Recorded(dq, e) ==
    TryKey(e.fs_div) \in DOMAIN dq /\ dq[TryKey(e.fs_div)] = Attempt(e)

SameEntry(f, g, key) ==
    /\ key \in DOMAIN f <=> key \in DOMAIN g
    /\ key \in DOMAIN f => f[key] = g[key]

\* C7 as claimed: every failed attempt (the call raised, or its payload was
\* empty) is recorded in the flags of the entity's record.
C7_EveryFailureRecorded ==
    \A i \in 1 .. Len(results) :
        \A n \in 1 .. Len(EntityLog(i)) :
            EntityLog(i)[n].data = None =>
                Recorded(results[i].data_quality, EntityLog(i)[n])

\* One call of dart_fnltt_all: what it leaves in the flags (in the record's
\* data_quality when the call ends the search).
C7_Call ==
    Len(fetch_log') = Len(fetch_log) + 1 =>
        LET e == fetch_log'[Len(fetch_log')]
            o == Val(last_response')
            after == IF Len(results') > Len(results)
                     THEN results'[Len(results')].data_quality ELSE flags'
        IN  IF o.kind = "raise"
            THEN /\ Recorded(after, e)
                 /\ after[ErrKey(e.fs_div)] = o.err
                 /\ \A key \in LastKeys \ {TryKey(e.fs_div), ErrKey(e.fs_div)} :
                        SameEntry(flags, after, key)
            ELSE \A key \in LastKeys : SameEntry(flags, after, key)

\* C7 (amended): an attempt is recorded only when its call raised, under
\* LAST_TRY_<basis> / LAST_ERR_<basis>, replacing the entry an earlier raising
\* call of that basis left; an empty payload records nothing.
C7_LastErrorPerBasis == [][C7_Call]_vars

\* C7 witness: the resolver succeeded on the third combination it attempted and
\* the record's flags name the second attempt alone.
C7_Witness ==
    \E i \in 1 .. Len(results) :
        /\ Len(EntityLog(i)) = 3
        /\ EntityLog(i)[3].data # None
        /\ Recorded(results[i].data_quality, EntityLog(i)[2])
        /\ ~Recorded(results[i].data_quality, EntityLog(i)[1])
        /\ "LAST_TRY_OFS" \notin DOMAIN results[i].data_quality

Prefix(s, n) == SubSeq(s, 1, IF n < Len(s) THEN n ELSE Len(s))

\* The tickers the claim selects: the first max_companies when a limit is set.
ClaimedSelection == IF max_companies = None THEN tickers ELSE Prefix(tickers, Val(max_companies))

\* The tickers the code selects: a limit of 0 is no limit.
AmendedSelection ==
    IF max_companies = None \/ max_companies = Some(0) THEN tickers
    ELSE Prefix(tickers, Val(max_companies))

OneRowEach(selection) ==
    /\ Len(results) = Len(selection)
    /\ \A i \in 1 .. Len(selection) : results[i].ticker = normalize(selection[i])

C8_State ==
    /\ Len(results) <= Len(AmendedSelection)
    /\ \A i \in 1 .. Len(results) : results[i].ticker = normalize(AmendedSelection[i])
    /\ res_pc = "done" => OneRowEach(AmendedSelection)
    /\ res_pc = "raised" => fetch_log = <<>>

C8_Step ==
    /\ Len(results') >= Len(results)
    /\ \A i \in 1 .. Len(results) : results'[i] = results[i]

TerminalFlags == {"FLAG_BAD_TICKER", "FLAG_NO_CORP_CODE", "FLAG_NO_FS"}

ListedCodes == {<<"0", "0", "5", "9", "3", "0">>, <<"0", "0", "0", "0", "2", "0">>}

BadIdentifier(t) == ~(Len(t) = 6 /\ \A q \in 1 .. Len(t) : t[q] \in Digits)

HasMapping(t) == t \in ListedCodes \/ (SubSeq(t, 1, 5) \o <<"0">>) \in ListedCodes

FailedWith(r, flag) ==
    /\ r.fs_year = None
    /\ r.equity_parent = None
    /\ r.net_income_parent = None
    /\ (DOMAIN r.data_quality) \cap TerminalFlags = {flag}

\* C9: a malformed identifier, an identifier without corp-code mapping and a
\* search in which every combination fails each give a record with null
\* fs_year, equity_parent and net_income_parent and exactly one of
\* FLAG_BAD_TICKER, FLAG_NO_CORP_CODE, FLAG_NO_FS, the one of that class; in
\* the first two classes no call is issued for the entity; a resolved record
\* carries none of the three.
C9_TerminalFlag ==
    \A i \in 1 .. Len(results) :
        LET t == normalize(tickers[i])
            L == EntityLog(i)
            r == results[i]
        IN  CASE BadIdentifier(t) -> FailedWith(r, "FLAG_BAD_TICKER") /\ L = <<>>
              [] ~BadIdentifier(t) /\ ~HasMapping(t) ->
                    FailedWith(r, "FLAG_NO_CORP_CODE") /\ L = <<>>
              [] OTHER ->
                    IF \A n \in 1 .. Len(L) : L[n].data = None
                    THEN /\ FailedWith(r, "FLAG_NO_FS")
                         /\ Len(L) = 2 * Len(reprt_codes) * Len(candidate_years)
                    ELSE (DOMAIN r.data_quality) \cap TerminalFlags = {}

\* C9 witness: a returned batch with one record of each failure class.
C9_Witness ==
    /\ res_pc = "done"
    /\ \E i \in 1 .. Len(results) :
          FailedWith(results[i], "FLAG_NO_FS") /\ Len(EntityLog(i)) = 24
    /\ \E i \in 1 .. Len(results) : FailedWith(results[i], "FLAG_BAD_TICKER")

\* C9 witness, no corp code (the batch holds at most MaxTickers tickers)
C9_WitnessNoCorpCode ==
    /\ res_pc = "done"
    /\ \E i \in 1 .. Len(results) :
          FailedWith(results[i], "FLAG_NO_CORP_CODE") /\ EntityLog(i) = <<>>

(***************************************************************************)
(* Claims about upsert_srim_result (under Spec)                            *)
(***************************************************************************)
RowsAt(table, r) == {e \in table : SameKey(e, r)}

Computed(e) ==
    [bps |-> e.bps, roe |-> e.roe, r |-> e.r, fair_price |-> e.fair_price,
     gap_pct |-> e.gap_pct]

\* The flags column holds the members of the JSON text that was written.
FlagsOf(e, r) ==
    /\ DOMAIN e.flags = {r.flags[q][1] : q \in 1 .. Len(r.flags)}
    /\ \A q \in 1 .. Len(r.flags) : e.flags[r.flags[q][1]] = r.flags[q][2]

WrittenRows == {Val(call).rows[q] : q \in 1 .. Len(Val(call).rows)}

\* C10: after upsert_srim_result has written a row for a key there is exactly
\* one srim_result row for that key, and it holds the values just written -
\* unchanged when the key already held the same values, all replaced when it
\* held different ones - with a computed_at that did not decrease.
C10_IdempotentReplace ==
    call # None =>
        \A r \in WrittenRows :
            /\ Cardinality(RowsAt(srim_result, r)) = 1
            /\ \A e \in RowsAt(srim_result, r) :
                  /\ Computed(e) = Computed(r)
                  /\ FlagsOf(e, r)
                  /\ \A old \in RowsAt(before, r) :
                        /\ old.computed_at <= e.computed_at
                        /\ (Computed(old) = Computed(r) /\ FlagsOf(old, r)) =>
                              old.bps = e.bps /\ old.roe = e.roe /\ old.r = e.r
                              /\ old.fair_price = e.fair_price
                              /\ old.gap_pct = e.gap_pct /\ old.flags = e.flags

\* C10 witness: the same row has been written by two calls in a row, and a
\* later now() stamped the second write.
C10_Witness ==
    /\ call # None
    /\ prev_call # None
    /\ \E r \in WrittenRows :
          /\ \E q \in 1 .. Len(Val(prev_call).rows) : Val(prev_call).rows[q] = r
          /\ \E e \in RowsAt(srim_result, r), old \in RowsAt(before, r) :
                Computed(e) = Computed(old) /\ old.computed_at < e.computed_at

\* C10 witness, replacement: a key that held other values has been rewritten.
C10_WitnessReplace ==
    /\ call # None
    /\ \E r \in WrittenRows :
          \E old \in RowsAt(before, r) :
             Computed(old) # Computed(r) /\ Cardinality(RowsAt(srim_result, r)) = 1

\* A row of the table whose key is not a key of the batch just written.
NotWritten(e) == \A r \in WrittenRows : ~SameKey(e, r)

\* C11: upsert_srim_result leaves every row whose (snapshot_id, ticker) is not
\* in the written batch as it found it - rows of other snapshots and rows of
\* the same snapshot for other tickers keep all fields and computed_at - and
\* it deletes no row.
C11_OtherRowsUntouched ==
    call # None =>
        /\ \A e \in before : NotWritten(e) => e \in srim_result
        /\ \A e \in before : RowsAt(srim_result, e) # {}
        /\ \A e \in srim_result : NotWritten(e) => e \in before

\* C11 witness: a call wrote one ticker of a snapshot and found a row of the
\* same snapshot for another ticker, written at an earlier time.
C11_Witness ==
    /\ call # None
    /\ WrittenRows # {}
    /\ \E e \in before :
          /\ NotWritten(e)
          /\ e.snapshot_id = Val(call).snapshot_id
          /\ e.computed_at < clock
          /\ e \in srim_result

\* C11 witness, other snapshot: a call found a row of another snapshot.
C11_WitnessOtherSnapshot ==
    /\ call # None
    /\ WrittenRows # {}
    /\ \E e \in before : e.snapshot_id # Val(call).snapshot_id /\ e \in srim_result

(***************************************************************************)
(* Claims about classify_flags (under SpecClassify)                        *)
(***************************************************************************)
Range(l) == {l[q] : q \in DOMAIN l}

NoRepeat(l) == \A q, z \in DOMAIN l : q # z => l[q] # l[z]

Keys(fl) == DOMAIN fl.items

\* C15: classify_flags returns WARN with FLAG_INVALID_FLAGS_FORMAT for an
\* argument that is no dict; else EXCLUDE with exactly the exclusion-set keys
\* present, when there is one; else WARN with exactly the warning-set keys
\* present, when there is one; else OK with no reasons.  With keys of both
\* sets the verdict is EXCLUDE and no reason is a warning-set key.
C15_ClassifyPriority ==
    verdict # None =>
        LET q == Val(verdict).quality
            reasons == Val(verdict).reasons
        IN  /\ NoRepeat(reasons)
            /\ flags_arg.t # "dict" =>
                  q = "WARN" /\ reasons = <<"FLAG_INVALID_FLAGS_FORMAT">>
            /\ (flags_arg.t = "dict" /\ Keys(flags_arg) \cap EXCLUDE_FLAG_KEYS # {}) =>
                  /\ q = "EXCLUDE"
                  /\ Range(reasons) = Keys(flags_arg) \cap EXCLUDE_FLAG_KEYS
                  /\ Range(reasons) \cap WARN_FLAG_KEYS = {}
            /\ (/\ flags_arg.t = "dict"
                /\ Keys(flags_arg) \cap EXCLUDE_FLAG_KEYS = {}
                /\ Keys(flags_arg) \cap WARN_FLAG_KEYS # {}) =>
                  q = "WARN" /\ Range(reasons) = Keys(flags_arg) \cap WARN_FLAG_KEYS
            /\ (/\ flags_arg.t = "dict"
                /\ Keys(flags_arg) \cap (EXCLUDE_FLAG_KEYS \cup WARN_FLAG_KEYS) = {}) =>
                  q = "OK" /\ reasons = <<>>

\* C15 witness: a flag set with keys of both sets has been classified.
C15_Witness ==
    /\ verdict # None
    /\ flags_arg.t = "dict"
    /\ Keys(flags_arg) \cap EXCLUDE_FLAG_KEYS # {}
    /\ Keys(flags_arg) \cap WARN_FLAG_KEYS # {}
    /\ Val(verdict).quality = "EXCLUDE"

(***************************************************************************)
(* Claims about sanitize_for_json (under SpecSanitize)                     *)
(***************************************************************************)
NonFinite(o) == o.t = "float" /\ o.float.d = 0

\* s is o with the non-finite floats reached through dicts and lists
\* replaced by None, and nothing else changed.
RECURSIVE Sanitizes(_, _)
Sanitizes(o, s) ==
    IF NonFinite(o) THEN s = PyNone
    ELSE IF o.t = "dict"
         THEN /\ s.t = "dict"
              /\ DOMAIN s.items = DOMAIN o.items
              /\ \A key \in DOMAIN o.items : Sanitizes(o.items[key], s.items[key])
    ELSE IF o.t = "list"
         THEN /\ s.t = "list"
              /\ Len(s.elems) = Len(o.elems)
              /\ \A q \in 1 .. Len(o.elems) : Sanitizes(o.elems[q], s.elems[q])
    ELSE s = o

\* A non-finite float at some depth of dicts, lists and tuples.
RECURSIVE HasNonFinite(_)
HasNonFinite(o) ==
    \/ NonFinite(o)
    \/ o.t = "dict" /\ \E key \in DOMAIN o.items : HasNonFinite(o.items[key])
    \/ o.t = "list" /\ \E q \in 1 .. Len(o.elems) : HasNonFinite(o.elems[q])
    \/ o.t = "tuple" /\ \E q \in 1 .. Len(o.members) : HasNonFinite(o.members[q])

\* C16 as claimed: no non-finite float is left at any depth of the nested
\* mappings and sequences of the value returned.
C16_NoNonFiniteAtAnyDepth == sanitized # None => ~HasNonFinite(Val(sanitized))

\* C16: sanitize_for_json returns a value of the same structure in which
\* every non-finite float reached through dicts and lists is None and every
\* other value, a tuple and its members included, is unchanged; a second
\* application returns the same value.
C16_SanitizeDictsAndLists ==
    /\ sanitized # None => Sanitizes(obj, Val(sanitized))
    /\ resanitized # None => resanitized = sanitized

\* C16 witness: a nested value holding non-finite floats has been sanitized
\* twice and the result differs from the argument.
C16_Witness ==
    /\ resanitized # None
    /\ obj.t = "dict"
    /\ HasNonFinite(obj)
    /\ ~HasNonFinite(Val(sanitized))
    /\ Val(sanitized) # obj

ResolverFlagKeys ==
    TerminalFlags \cup {"FLAG_EQUITY_SUB_TOTAL_EQUITY", "FLAG_NI_SUB_NET_INCOME"}

\* C19: every FundamentalRow returned with a null equity_parent or a null
\* net_income_parent carries at least one FLAG_ key in its data_quality.
C19_NullValueCarriesFlag ==
    \A q \in 1 .. Len(results) :
        (results[q].equity_parent = None \/ results[q].net_income_parent = None) =>
            DOMAIN results[q].data_quality \cap ResolverFlagKeys # {}

(***************************************************************************)
(* Claims about run and run_stage3_srim (checked under SpecRun)            *)
(***************************************************************************)
ResultAt(table, row) == {e \in table : SameKey(e, row)}

\* C12: when db.execute raises for a row of the batch, the exception leaves
\* upsert_srim_result and run_stage3_srim: the step that fails counts nothing
\* and ends the loop, no later row is executed or counted, nothing is written to
\* srim_result, no summary is returned and the run ends with the exception.
C12_WriteFailurePropagates ==
    /\ [](write_failed => (summary = None /\ run_pc = "raised"))
    /\ [][/\ (~write_failed /\ write_failed') =>
                 (run_pc' = "raised" /\ count' = count /\ next_row' = next_row)
          /\ write_failed =>
                 /\ srim_result' = srim_result
                 /\ run_pc' = "idle"
                 /\ run_exit' = "raised"]_vars

\* The first of two rows failed and the exception is leaving run.
C12_Witness ==
    /\ write_failed
    /\ run_pc = "raised"
    /\ Len(out_rows) = 2
    /\ next_row = 1
    /\ count = 0

\* C13: run_stage3_srim reads the rate once, before any row is valued, and keeps
\* it: every row of the batch, and every row the run has written when it
\* returns, has r equal to the summary's discount_rate, whatever another writer
\* does to discount_rate_snapshot in the meantime.
C13_OneRatePerRun ==
    /\ [](run_pc \in {"s3_rows", "s3_compute", "s3_upsert"} => rate_read # None)
    /\ [](\A q \in 1 .. Len(out_rows) : out_rows[q].r = rate_read)
    /\ [](run_pc = "return" /\ summary # None =>
            /\ Some(Val(summary).discount_rate) = rate_read
            /\ \A q \in 1 .. Len(out_rows) :
                  /\ ResultAt(srim_result, out_rows[q]) # {}
                  /\ \A e \in ResultAt(srim_result, out_rows[q]) :
                        e.r = Some(Val(summary).discount_rate))
    /\ [][rate_read # None /\ run_pc \notin {"return", "raised"} => rate_read' = rate_read]_vars

\* A run wrote two rows and returns although the stored rate was changed
\* after the run had read it.
C13_Witness ==
    /\ run_pc = "return"
    /\ rate_changed
    /\ summary # None
    /\ Len(out_rows) = 2
    /\ Val(summary).discount_rate
           # load_discount_rate(discount_rate_snapshot, Sid, DEFAULT_DISCOUNT_RATE)

\* C14: whenever no run is under way, every srim_result row of the snapshot
\* carries the rate stored for the snapshot in discount_rate_snapshot (so all of
\* them carry the same r).
C14_RowsCarryStoredRate ==
    run_pc = "idle" =>
        \A e \in srim_result : \A d \in discount_rate_snapshot :
            e.snapshot_id = d.snapshot_id => e.r = d.rate

\* C18: a srim_result row exists only for a key for which market_snapshot and
\* fundamental_snapshot both hold a row; this holds of the open transaction too.
C18_ResultHasBothRecords ==
    \A e \in srim_result \cup tx :
        /\ \E m \in market_snapshot : SameKey(m, e)
        /\ \E f \in fundamental_snapshot : SameKey(f, e)

\* Both entities have a result row.
C18_Witness ==
    /\ run_pc = "idle"
    /\ Cardinality(srim_result) = 2

\* C20: when a run with stage 3 returns, an entity with a market and a
\* fundamental record whose equity or net income is null or whose share count
\* is null has a srim_result row with a null fair price and some flag.
C20_FailedEntityGetsFlaggedRow ==
    (run_pc = "return" /\ 3 \in stages) =>
        \A m \in market_snapshot : \A f \in fundamental_snapshot :
            (/\ SameKey(m, f)
             /\ \/ f.equity_parent = None
                \/ f.net_income_parent = None
                \/ m.shares_out = None) =>
                \E e \in srim_result :
                    /\ SameKey(e, m)
                    /\ e.fair_price = None
                    /\ DOMAIN e.flags # {}

\* A calc-ready row the engine rejects, and the flag it is rejected with.
EngineRejects(row, rate) ==
    \/ RLe(Val(row.equity_parent), Num(0))
    \/ RLe(Val(row.shares_out), Num(0))
    \/ RLe(rate, Num(0))

RejectionFlag(row, rate) ==
    IF RLe(Val(row.equity_parent), Num(0)) THEN "FLAG_EQUITY_NON_POSITIVE"
    ELSE IF RLe(Val(row.shares_out), Num(0)) THEN "FLAG_SHARES_NON_POSITIVE"
    ELSE "FLAG_DISCOUNT_RATE_NON_POSITIVE"

FiniteRow(row) ==
    /\ Val(row.equity_parent).d # 0
    /\ Val(row.net_income_parent).d # 0
    /\ Val(row.shares_out).d # 0

\* C21: a calc-ready row the engine rejects (equity <= 0, shares <= 0 or rate
\* <= 0) does not make run_stage3_srim raise: stage 3 raises only when a write
\* fails, and when it returns every calc-ready row has exactly one srim_result
\* row - a rejected one with null bps, roe, fair_price and gap_pct and its
\* blocking flag, any other one with its own bps, roe and fair price - and
\* upserted_rows equals calc_rows.
C21_RejectedRowIsWritten ==
    /\ (run_pc = "raised" /\ rate_read # None) => write_failed
    /\ (run_pc = "return" /\ summary # None) =>
          /\ Val(summary).calc_rows = Len(calc_df)
          /\ Val(summary).upserted_rows = Val(summary).calc_rows
          /\ \A q \in 1 .. Len(calc_df) :
                LET row == calc_df[q]
                    rate == Val(summary).discount_rate
                    written == {e \in srim_result :
                                 e.snapshot_id = Sid /\ e.ticker = row.ticker}
                IN  /\ Cardinality(written) = 1
                    /\ \A e \in written :
                          IF EngineRejects(row, rate)
                          THEN /\ e.bps = None
                               /\ e.roe = None
                               /\ e.fair_price = None
                               /\ e.gap_pct = None
                               /\ RejectionFlag(row, rate) \in DOMAIN e.flags
                               /\ e.flags[RejectionFlag(row, rate)] = PyBool(TRUE)
                          ELSE FiniteRow(row) =>
                                  /\ e.bps = Some(RDiv(Val(row.equity_parent),
                                                       Val(row.shares_out)))
                                  /\ e.roe = Some(RDiv(Val(row.net_income_parent),
                                                       Val(row.equity_parent)))
                                  /\ e.fair_price # None

\* A run returns after writing two rows: one entity was rejected for its
\* equity, the other one was valued.
C21_Witness ==
    /\ run_pc = "return"
    /\ summary # None
    /\ Len(calc_df) = 2
    /\ Val(summary).upserted_rows = 2
    /\ \E q \in 1 .. 2 :
          /\ RLe(Val(calc_df[q].equity_parent), Num(0))
          /\ ~EngineRejects(calc_df[3 - q], Val(summary).discount_rate)
          /\ \E e \in srim_result :
                /\ e.ticker = calc_df[q].ticker
                /\ e.fair_price = None
                /\ "FLAG_EQUITY_NON_POSITIVE" \in DOMAIN e.flags
          /\ \E e \in srim_result :
                e.ticker = calc_df[3 - q].ticker /\ e.fair_price # None

\* One iteration order of a set of keys.
RECURSIVE AnOrder(_)
AnOrder(S) ==
    IF S = {} THEN <<>>
    ELSE LET key == CHOOSE q \in S : TRUE IN <<key>> \o AnOrder(S \ {key})

\* The verdict of classify_flags for a stored flags column (the quality does
\* not depend on the iteration order of the key sets).
QualityOf(fl) ==
    classify_flags(PyDict(fl), AnOrder(EXCLUDE_FLAG_KEYS), AnOrder(WARN_FLAG_KEYS)).quality

\* C30: no flags a run of stage 3 computes or stores holds a key of the
\* exclusion set, and classify_flags gives OK or WARN, never EXCLUDE, for every
\* stored result row, the rows the engine rejected included.
C30_NoResultRowIsExcluded ==
    /\ \A q \in 1 .. Len(out_rows) :
          /\ DOMAIN cast_jsonb(out_rows[q].flags) \cap EXCLUDE_FLAG_KEYS = {}
          /\ QualityOf(cast_jsonb(out_rows[q].flags)) \in {"OK", "WARN"}
    /\ \A e \in srim_result \cup tx :
          /\ DOMAIN e.flags \cap EXCLUDE_FLAG_KEYS = {}
          /\ QualityOf(e.flags) \in {"OK", "WARN"}

\* Stored after a run: a row the engine rejected, classified OK, next to a
\* valued row.
C30_Witness ==
    /\ run_pc = "idle"
    /\ \E e \in srim_result :
          /\ e.fair_price = None
          /\ e.bps = None
          /\ e.roe = None
          /\ "FLAG_EQUITY_NON_POSITIVE" \in DOMAIN e.flags
          /\ QualityOf(e.flags) = "OK"
    /\ \E e \in srim_result :
          /\ e.fair_price # None
          /\ QualityOf(e.flags) \in {"OK", "WARN"}

\* The non-null rates stored for a snapshot (at most one: snapshot_id is the
\* primary key of discount_rate_snapshot).
StoredRates(table, sid) ==
    {Val(e.rate) : e \in {d \in table : d.snapshot_id = sid /\ d.rate # None}}

RateRow(sid, rate) ==
    [snapshot_id |-> sid, as_of_date |-> AsOf, rate |-> rate, source |-> "manual"]

\* Tables of discount_rate_snapshot: empty, a row of another snapshot, a row
\* without a rate, a row with a rate.
RateTables ==
    {{}, {RateRow(<<2025, "Q", 4>>, Some(Rat(1, 5)))}, {RateRow(Sid, None)},
     {RateRow(Sid, Some(Rat(1, 5)))},
     {RateRow(Sid, Some(Num(0))), RateRow(<<2025, "Q", 4>>, Some(Rat(1, 5)))}}

\* C29: load_discount_rate returns the stored rate of the snapshot when a row
\* with a non-null rate exists and the default otherwise; stage 3, with or
\* without stage 0 in the run, goes on from the read without raising, with that
\* value as its rate, and a summary it returns reports that value.
C29_RateOrDefault ==
    /\ [](\A table \in RateTables :
             load_discount_rate(table, Sid, DEFAULT_DISCOUNT_RATE) \in
                 (IF StoredRates(table, Sid) = {} THEN {DEFAULT_DISCOUNT_RATE}
                  ELSE StoredRates(table, Sid)))
    /\ [][run_pc = "stage3" =>
             /\ run_pc' = "s3_rows"
             /\ rate_read' # None
             /\ Val(rate_read') \in
                    (IF StoredRates(discount_rate_snapshot, Sid) = {}
                     THEN {DEFAULT_DISCOUNT_RATE}
                     ELSE StoredRates(discount_rate_snapshot, Sid))]_vars
    /\ []((run_pc = "return" /\ summary # None) =>
             Some(Val(summary).discount_rate) = rate_read)

\* A run of stage 3 alone returns with the default rate: no rate is stored.
C29_Witness ==
    /\ run_pc = "return"
    /\ stages = {3}
    /\ discount_rate_snapshot = {}
    /\ summary # None
    /\ Val(summary).discount_rate = DEFAULT_DISCOUNT_RATE

\* The stage a position of run belongs to, -1 outside the stages.
StageAt(pc) ==
    IF pc = "stage0" THEN 0
    ELSE IF pc = "stage1" THEN 1
    ELSE IF pc = "stage2" THEN 2
    ELSE IF pc \in {"stage3", "s3_rows", "s3_compute", "s3_upsert"} THEN 3
    ELSE -1

\* Where run goes after stage k when nothing raises: the least requested stage
\* above k, or the return.
ClaimedNext(stgs, k) ==
    IF \A j \in stgs : j <= k THEN {"return"}
    ELSE {StageNames[j + 1] : j \in {i \in stgs : i > k /\ \A o \in stgs : o > k => i <= o}}

\* C28: run executes the requested stages, and only those, in the order 0, 1,
\* 2, 3; stage 2 writes only after stage 1 of the same run has given market_df,
\* and a run that requests stage 2 without stage 1 raises at stage 2 without
\* writing anything, goes to the exit from there (no stage 3), and every exit,
\* the return and the raise, closes the session.
C28_StagesInOrder ==
    /\ [](StageAt(run_pc) >= 0 => StageAt(run_pc) \in stages)
    /\ [](market_df # None => (1 \in stages /\ StageAt(run_pc) \notin {0, 1}))
    /\ []((run_pc = "stage2" /\ 1 \notin stages) => market_df = None)
    /\ [](db_open <=> run_pc # "idle")
    /\ [][/\ (run_pc = "idle" /\ run_pc' # "idle") =>
                (run_pc' \in ClaimedNext(stages', -1) /\ db_open')
          /\ (StageAt(run_pc) >= 0 /\ StageAt(run_pc') # StageAt(run_pc)) =>
                run_pc' \in ClaimedNext(stages, StageAt(run_pc)) \cup {"raised"}
          /\ (run_pc = "stage2" /\ market_df = None) =>
                /\ run_pc' = "raised"
                /\ UNCHANGED <<tableVars, srim_result>>
          /\ (run_pc = "stage2" /\ <<market_snapshot, fundamental_snapshot>>'
                                      # <<market_snapshot, fundamental_snapshot>>) =>
                (market_df # None /\ 1 \in stages)
          /\ run_pc = "raised" =>
                /\ run_pc' = "idle"
                /\ run_exit' = "raised"
                /\ ~db_open'
                /\ UNCHANGED <<tableVars, srim_result>>
          /\ run_pc = "return" =>
                (run_pc' = "idle" /\ run_exit' = "returned" /\ ~db_open')
          /\ (run_pc # "idle" /\ run_pc' = "idle") => run_pc \in {"return", "raised"}]_vars

\* Stages 0, 2 and 3 were requested: stage 0 has written the snapshot, stage 2
\* has raised for the missing market_df, stage 3 has not started and the
\* session is still to be closed.
C28_Witness ==
    /\ run_pc = "raised"
    /\ stages = {0, 2, 3}
    /\ snapshots # {}
    /\ market_df = None
    /\ fundamental_snapshot = {}
    /\ rate_read = None
    /\ db_open

\* C24: when the preconditions pass, FLAG_ROE_NEGATIVE is recorded exactly when
\* net income / equity < 0 and FLAG_ROE_BELOW_R exactly when net income / equity
\* is below the discount rate, and the fair price is non-null whether or not
\* either flag is recorded.
C24_AdvisoryFlags ==
    (srim_pc = "done" /\ PreconditionsPass(x)) =>
        /\ ("FLAG_ROE_NEGATIVE" \in DOMAIN out.flags) <=> (Val(x.net_income_parent).n < 0)
        /\ ("FLAG_ROE_BELOW_R" \in DOMAIN out.flags) <=> RoeBelowRate(x)
        /\ out.srim_price # None
        /\ out.bps # None
        /\ out.roe # None

\* Both advisory flags are recorded together with a fair price.
C24_Witness ==
    /\ srim_pc = "done"
    /\ PreconditionsPass(x)
    /\ {"FLAG_ROE_NEGATIVE", "FLAG_ROE_BELOW_R"} \subseteq DOMAIN out.flags
    /\ out.srim_price # None

(***************************************************************************)
(* Claims about the value extraction (checked under SpecExtract)           *)
(***************************************************************************)
\* The amount of the account with exactly this name, None when not listed.
Listed(df, nm) ==
    LET rows == SelectSeq(df.rows, LAMBDA row : row["account_nm"] = nm)
    IN  IF rows = <<>> THEN None ELSE _safe_float(rows[1]["thstrm_amount"])

\* The value and the substitution flag the claim asks for.
ClaimedPick(df, parent_nm, total_nm) ==
    IF Listed(df, parent_nm) # None
    THEN [value |-> Listed(df, parent_nm), substituted |-> FALSE]
    ELSE [value |-> Listed(df, total_nm), substituted |-> Listed(df, total_nm) # None]

\* C25: equity is the amount of the controlling-owners equity account when the
\* payload lists it; otherwise it is total equity and
\* FLAG_EQUITY_SUB_TOTAL_EQUITY is recorded, and the flag is recorded in no
\* other case.  The same for net income with FLAG_NI_SUB_NET_INCOME.
C25_SubstitutionFlags ==
    extracted # None =>
        LET row == Val(extracted)
            eq == ClaimedPick(Val(payload), <<"jibaegieop", "soyuju", "jibun">>,
                              <<"jabonchonggye">>)
            ni == ClaimedPick(Val(payload),
                              <<"jibaegieop", "soyuju", "jibun", "danggi", "suniik">>,
                              <<"danggi", "suniik">>)
        IN  /\ row.equity_parent = eq.value
            /\ ("FLAG_EQUITY_SUB_TOTAL_EQUITY" \in DOMAIN row.data_quality)
                   <=> eq.substituted
            /\ row.net_income_parent = ni.value
            /\ ("FLAG_NI_SUB_NET_INCOME" \in DOMAIN row.data_quality) <=> ni.substituted

\* C22: for one entity no (report type, year, basis) combination is fetched
\* twice, so at most |report types| x |years| x 2 = 24 fetches are issued for
\* it, and the resolver always comes to an end, also when every fetch raises.
C22_BoundedSearch ==
    /\ [](\A i \in 1 .. iter :
            LET L == EntityLog(i)
            IN  /\ \A n, o \in 1 .. Len(L) : n # o => Combo(L[n]) # Combo(L[o])
                /\ Len(L) <= Len(reprt_codes) * Len(candidate_years) * 2)
    /\ <>(res_pc \in {"done", "raised"})

\* The resolver has returned after all 24 fetches of an entity raised.
C22_Witness ==
    /\ res_pc = "done"
    /\ \E i \in 1 .. iter :
          /\ Len(EntityLog(i)) = 24
          /\ "LAST_ERR_OFS" \in DOMAIN results[i].data_quality
          /\ "FLAG_NO_FS" \in DOMAIN results[i].data_quality

(***************************************************************************)
(* Stage 0 called again and again, with as-of dates of two quarters        *)
(* (app/etl/run_etl.py: stage0, app/etl/load.py: upsert_snapshot)          *)
(***************************************************************************)
MaxStage0Calls == 3

\* --as-of: two dates of 2026Q1 and one of 2026Q2
AsOfDates == {20260104, 20260215, 20260405}

stage0Frame ==
    <<srimVars, resVars, classifyVars, sanitizeVars, lateVars, srim_result, call,
      prev_call, before, ncalls, world, tickers_table, market_snapshot,
      fundamental_snapshot, run_pc, stages, market_df, stage3Locals, run_exit, db_open,
      write_failed, rate_changed>>

Stage0Init ==
    /\ SrimIdle
    /\ ResolverIdle
    /\ StoreIdle
    /\ ClassifyIdle
    /\ SanitizeIdle
    /\ RunIdle
    /\ LateIdle

\* run(as_of, snapshot_id=None, stages=[0], r, note): the clock is the
\* database's now(), which gives created_at of a new row
Stage0Call ==
    /\ clock < MaxStage0Calls
    /\ clock' = clock + 1
    /\ \E as_of \in AsOfDates, rate \in Rates, note \in Notes :
          /\ snapshots' =
                 upsert_snapshot(snapshots, snapshot_id_for(as_of), as_of, note, clock')
          /\ discount_rate_snapshot' =
                 upsert_discount_rate(discount_rate_snapshot, snapshot_id_for(as_of),
                                      as_of, rate, "manual")
    /\ UNCHANGED stage0Frame

Stage0Next == Stage0Call

SpecStage0 == Stage0Init /\ [][Stage0Next]_vars

\* C26: a Snapshot row that exists keeps its snapshot_id, as_of_date and
\* created_at in every later step; only its note may change.
C26_SnapshotKeepsItsFields ==
    [][\A e \in snapshots :
          \E o \in snapshots' :
              /\ o.snapshot_id = e.snapshot_id
              /\ o.as_of_date = e.as_of_date
              /\ o.created_at = e.created_at]_vars

(***************************************************************************)
(* fetch_shares_out_for_tickers (app/etl/sources_dart.py)                  *)
(* The column se of a stockTotqySttus row is a sequence of syllables:      *)
(*   bo tong ju   common shares      u seon ju   preferred shares          *)
(*   hap gye      total                                                    *)
(***************************************************************************)
\* float(x) of a cell after removing commas and blanks, None when it raises
_to_num(v) == _safe_float(v)

ShareRow(se, istc_totqy, tesstk_co, distb_stock_co) ==
    [se |-> se, istc_totqy |-> istc_totqy, tesstk_co |-> tesstk_co,
     distb_stock_co |-> distb_stock_co]

\* The row with "botong" in its se column, else the first row; None, None,
\* None for an empty list.
pick_issued_shares(df) ==
    IF df = <<>> THEN [issued |-> None, treasury |-> None, float_sh |-> None]
    ELSE LET m == SelectSeq(df, LAMBDA r : contains(r.se, <<"bo", "tong">>))
             pick == IF m # <<>> THEN m[1] ELSE df[1]
         IN  [issued |-> _to_num(pick.istc_totqy), treasury |-> _to_num(pick.tesstk_co),
              float_sh |-> _to_num(pick.distb_stock_co)]

\* [(y, rc) for rc in reprt_codes for y in candidate_years]
fallback_tries ==
    [q \in 1 .. (Len(reprt_codes) * Len(candidate_years)) |->
        <<candidate_years[((q - 1) % Len(candidate_years)) + 1],
          reprt_codes[((q - 1) \div Len(candidate_years)) + 1]>>]

\* Mutant of unique_tries: nothing is removed.
unique_tries_keeping_repeats(l) == l

\* for y, rc in first_tries: if (y, rc) not in seen: ... tries.append((y, rc))
RECURSIVE unique_tries(_)
unique_tries(l) ==
    IF l = <<>> THEN <<>>
    ELSE LET front == unique_tries(SubSeq(l, 1, Len(l) - 1))
         IN  IF \E q \in 1 .. Len(front) : front[q] = l[Len(l)] THEN front
             ELSE Append(front, l[Len(l)])

\* first_tries, then the removal of repeats
share_tries(preferred, ticker) ==
    LET first_tries == IF preferred # None /\ DOMAIN Val(preferred) # {}
                            /\ ticker \in DOMAIN Val(preferred)
                       THEN <<Val(preferred)[ticker]>> ELSE <<>>
    IN  unique_tries(first_tries \o fallback_tries)

\* What one call of dart_stock_total_status gives: the list of the answer,
\* None when it raises (HTTP error, or a status other than 000).
ShareResponses ==
    {None,
     Some(<<>>),
     Some(<<ShareRow(<<"bo", "tong", "ju">>, Some(<<"-">>), Some(<<"-">>), Some(<<"-">>))>>),
     Some(<<ShareRow(<<"u", "seon", "ju">>, Some(<<"8", "0", "0">>), None, None),
            ShareRow(<<"bo", "tong", "ju">>, Some(<<"5", ",", "0", "0", "0">>),
                     Some(<<"1", "0", "0">>), Some(<<"4", ",", "9", "0", "0">>))>>),
     Some(<<ShareRow(<<"hap", "gye">>, Some(<<"5", ",", "8", "0", "0">>), None, None)>>)}

\* preferred_year_report[tk]: the first pair of the fallback list, a pair in
\* its middle, a pair that is not in it
PreferredPairs ==
    {<<current_year - 2, "11011">>, <<current_year - 3, "11014">>,
     <<current_year - 5, "11011">>}

PreferredKeys ==
    {<<"0", "0", "5", "9", "3", "0">>, <<"0", "0", "0", "0", "2", "0">>,
     <<"1", "2", "3", "4", "5", "6">>}

ShareTickerLists ==
    {<<<<"2", "0">>>>,
     <<<<"1", "2", "3", "4", "5", "6">>>>,
     <<<<"1", "2", "3", "4", "5", "6">>, <<"0", "0", "5", "9", "3", "0">>>>}

ShareArgs ==
    {[tickers |-> l, preferred_year_report |-> p] :
        l \in ShareTickerLists,
        p \in {None} \cup {Some([k \in PreferredKeys |-> pair]) : pair \in PreferredPairs}}

SharesInit ==
    /\ sh_pc = "call"
    /\ sh_args \in {Some(a) : a \in ShareArgs}
    /\ sh_at = 1
    /\ sh_try = 0
    /\ sh_flags = EmptyDict
    /\ sh_out = EmptyDict
    /\ sh_calls = <<>>
    /\ ExtractIdle
    /\ ConcIdle
    /\ SrimIdle
    /\ ResolverIdle
    /\ StoreIdle
    /\ ClassifyIdle
    /\ SanitizeIdle
    /\ RunIdle

\* tk = str(tk).strip().zfill(6)
sh_tk == normalize(Val(sh_args).tickers[sh_at])

sh_tries == share_tries(Val(sh_args).preferred_year_report, sh_tk)

ShareEntry(issued, treasury, float_sh, fl) ==
    [shares_out |-> issued, treasury_shares |-> treasury, float_shares |-> float_sh,
     data_quality |-> fl]

\* for tk in tickers: the corp code, the entry of a ticker without one
ShNextTicker ==
    /\ sh_pc = "call"
    /\ sh_try = 0
    /\ sh_at <= Len(Val(sh_args).tickers)
    /\ IF resolve_corp_code(CorpTable, sh_tk) = None
       THEN /\ sh_out' = DictSet(sh_out, sh_tk,
                             ShareEntry(None, None, None,
                                        DictSet(DictSet(EmptyDict, "FLAG_NO_CORP_CODE", TRUE),
                                                "name", None)))
            /\ sh_at' = sh_at + 1
            /\ UNCHANGED <<sh_try, sh_flags>>
       ELSE /\ sh_flags' = DictSet(EmptyDict, "name", None)
            /\ sh_try' = 1
            /\ UNCHANGED <<sh_out, sh_at>>
    /\ UNCHANGED <<sh_pc, sh_args, sh_calls>>
    /\ UNCHANGED sharesFrame

\* The outcome of one pass of "for y, rc in tries" for the answer resp.
after_attempt(resp, pair, fl) ==
    IF resp = None
    THEN [found |-> FALSE, picked |-> pick_issued_shares(<<>>),
          fl |-> DictSet(DictSet(fl, "LAST_ERR", "RuntimeError"), "LAST_TRY", pair)]
    ELSE LET picked == pick_issued_shares(Val(resp))
         IN  IF picked.issued # None
             THEN [found |-> TRUE, picked |-> picked,
                   fl |-> DictSet(DictSet(fl, "year_used", pair[1]),
                                  "report_code_used", pair[2])]
             ELSE [found |-> FALSE, picked |-> picked, fl |-> fl]

\* One pass of "for y, rc in tries", with the entry of the ticker when the
\* pass ends the loop with break.
ShAttempt ==
    /\ sh_pc = "call"
    /\ sh_try >= 1
    /\ sh_try <= Len(sh_tries)
    /\ \E resp \in ShareResponses :
          LET pair == sh_tries[sh_try]
              after == after_attempt(resp, pair, sh_flags)
          IN  /\ sh_calls' = Append(sh_calls,
                                    [ticker |-> sh_tk, bsns_year |-> pair[1],
                                     reprt_code |-> pair[2],
                                     issued |-> after.picked.issued])
              /\ IF after.found
                 THEN /\ sh_out' = DictSet(sh_out, sh_tk,
                                           ShareEntry(after.picked.issued,
                                                      after.picked.treasury,
                                                      after.picked.float_sh, after.fl))
                      /\ sh_at' = sh_at + 1
                      /\ sh_try' = 0
                      /\ sh_flags' = EmptyDict
                 ELSE /\ sh_flags' = after.fl
                      /\ sh_try' = sh_try + 1
                      /\ UNCHANGED <<sh_out, sh_at>>
    /\ UNCHANGED <<sh_pc, sh_args>>
    /\ UNCHANGED sharesFrame

\* if not found: the entry with FLAG_NO_SHARES
ShNotFound ==
    /\ sh_pc = "call"
    /\ sh_try >= 1
    /\ sh_try > Len(sh_tries)
    /\ sh_out' = DictSet(sh_out, sh_tk,
                         ShareEntry(None, None, None,
                                    DictSet(sh_flags, "FLAG_NO_SHARES", TRUE)))
    /\ sh_at' = sh_at + 1
    /\ sh_try' = 0
    /\ sh_flags' = EmptyDict
    /\ UNCHANGED <<sh_pc, sh_args, sh_calls>>
    /\ UNCHANGED sharesFrame

\* return out
ShReturn ==
    /\ sh_pc = "call"
    /\ sh_try = 0
    /\ sh_at > Len(Val(sh_args).tickers)
    /\ sh_pc' = "done"
    /\ UNCHANGED <<sh_args, sh_at, sh_try, sh_flags, sh_out, sh_calls>>
    /\ UNCHANGED sharesFrame

SharesNext == ShNextTicker \/ ShAttempt \/ ShNotFound \/ ShReturn

SpecShares == SharesInit /\ [][SharesNext]_vars

(***************************************************************************)
(* Claims about fetch_shares_out_for_tickers (checked under SpecShares)    *)
(***************************************************************************)
\* The tickers of the call that the outer loop has reached, normalised.
TickersReached ==
    {normalize(Val(sh_args).tickers[q]) :
        q \in {z \in 1 .. Len(Val(sh_args).tickers) : z <= sh_at}}

\* The calls made for a ticker, in order.
CallsFor(ticker) == SelectSeq(sh_calls, LAMBDA c : c.ticker = ticker)

PairOf(c) == <<c.bsns_year, c.reprt_code>>

\* The claimed order: the preferred pair when the ticker has one, then report
\* types in priority order with the years in order inside each, the
\* preferred pair left out.
ClaimedFallback ==
    <<<<current_year - 2, "11011">>, <<current_year - 3, "11011">>,
      <<current_year - 1, "11011">>,
      <<current_year - 2, "11014">>, <<current_year - 3, "11014">>,
      <<current_year - 1, "11014">>,
      <<current_year - 2, "11012">>, <<current_year - 3, "11012">>,
      <<current_year - 1, "11012">>,
      <<current_year - 2, "11013">>, <<current_year - 3, "11013">>,
      <<current_year - 1, "11013">>>>

ClaimedTries(ticker) ==
    LET p == Val(sh_args).preferred_year_report
    IN  IF p # None /\ ticker \in DOMAIN Val(p)
        THEN <<Val(p)[ticker]>>
                 \o SelectSeq(ClaimedFallback, LAMBDA pair : pair # Val(p)[ticker])
        ELSE ClaimedFallback

\* The calls of a ticker follow the claimed order, repeat no pair, and no call
\* is made after one that gave an issued-share count.
SearchedAsClaimed(ticker) ==
    LET l == CallsFor(ticker)
    IN  /\ Len(l) <= Len(ClaimedTries(ticker))
        /\ \A q \in 1 .. Len(l) : PairOf(l[q]) = ClaimedTries(ticker)[q]
        /\ \A q, z \in 1 .. Len(l) : q # z => PairOf(l[q]) # PairOf(l[z])
        /\ \A q \in 1 .. (Len(l) - 1) : l[q].issued = None

\* The entry of a ticker in the result: the shares of the call that gave a
\* count, or null shares and FLAG_NO_SHARES after every pair was tried.
EntryAsClaimed(ticker) ==
    LET l == CallsFor(ticker)
        e == sh_out[ticker]
    IN  IF l # <<>> /\ l[Len(l)].issued # None
        THEN /\ e.shares_out = l[Len(l)].issued
             /\ e.data_quality["year_used"] = l[Len(l)].bsns_year
             /\ e.data_quality["report_code_used"] = l[Len(l)].reprt_code
             /\ "FLAG_NO_SHARES" \notin DOMAIN e.data_quality
        ELSE /\ Len(l) = Len(ClaimedTries(ticker))
             /\ e.shares_out = None
             /\ e.treasury_shares = None
             /\ e.float_shares = None
             /\ "FLAG_NO_SHARES" \in DOMAIN e.data_quality

\* C23 as stated: every ticker of the call is searched in the claimed order and
\* ends with the shares found or with FLAG_NO_SHARES.
C23_EveryTickerSearched ==
    /\ sh_pc = "call" => \A ticker \in TickersReached : SearchedAsClaimed(ticker)
    /\ sh_pc = "done" =>
          \A ticker \in TickersReached :
              /\ ticker \in DOMAIN sh_out
              /\ SearchedAsClaimed(ticker)
              /\ EntryAsClaimed(ticker)

\* C23: for every ticker with a corp code fetch_shares_out_for_tickers tries
\* the preferred (year, report type) first when one is supplied, then the
\* fallback list by report type and year, no pair twice, stops at the first
\* call that gives an issued-share count and returns FLAG_NO_SHARES with null
\* share fields when none does; a ticker without a corp code is not looked up
\* at all and gets FLAG_NO_CORP_CODE with null share fields.
C23_ResolvedTickerSearched ==
    /\ sh_pc = "call" =>
          \A ticker \in TickersReached :
              IF resolve_corp_code(CorpTable, ticker) # None
              THEN SearchedAsClaimed(ticker)
              ELSE CallsFor(ticker) = <<>>
    /\ sh_pc = "done" =>
          \A ticker \in TickersReached :
              /\ ticker \in DOMAIN sh_out
              /\ IF resolve_corp_code(CorpTable, ticker) # None
                 THEN SearchedAsClaimed(ticker) /\ EntryAsClaimed(ticker)
                 ELSE /\ CallsFor(ticker) = <<>>
                      /\ sh_out[ticker].shares_out = None
                      /\ sh_out[ticker].treasury_shares = None
                      /\ sh_out[ticker].float_shares = None
                      /\ "FLAG_NO_CORP_CODE" \in DOMAIN sh_out[ticker].data_quality
                      /\ "FLAG_NO_SHARES" \notin DOMAIN sh_out[ticker].data_quality

\* A ticker without a corp code was skipped; the next one, whose preferred
\* pair is in the middle of the fallback list, was tried with that pair
\* first, then with the list from its start, and the third call gave the
\* count of the common shares.
C23_Witness ==
    /\ sh_pc = "done"
    /\ Len(Val(sh_args).tickers) = 2
    /\ Val(sh_args).preferred_year_report # None
    /\ Len(sh_calls) = 3
    /\ PairOf(sh_calls[1]) = <<current_year - 3, "11014">>
    /\ PairOf(sh_calls[2]) = <<current_year - 2, "11011">>
    /\ sh_calls[2].issued = None
    /\ sh_calls[3].issued = Some(Num(5000))
    /\ sh_out[<<"0", "0", "5", "9", "3", "0">>].shares_out = Some(Num(5000))
    /\ "FLAG_NO_CORP_CODE" \in DOMAIN sh_out[<<"1", "2", "3", "4", "5", "6">>].data_quality

(***************************************************************************)
(* Two sessions in upsert_srim_result at the same time                     *)
(* (app/etl/stage3_srim.py).  The database is PostgreSQL at its default    *)
(* isolation level: a statement's row is visible to others and unlocked    *)
(* when its transaction ends, a statement on a row another transaction     *)
(* holds waits for that, and of two transactions that wait for each other  *)
(* one is made to fail.                                                    *)
(***************************************************************************)
ConcSessions == {1, 2}

ConcSid == "2026Q1"

\* What a session writes for every ticker: session 1 a valuation, session 2
\* a rejection; the row the table may hold at the start is a third one.
ConcValue(s) ==
    IF s = 1
    THEN [bps |-> Some(Num(10)), roe |-> Some(Rat(3, 20)), r |-> Some(Rat(1, 10)),
          fair_price |-> Some(Num(15)), gap_pct |-> Some(Num(25)),
          flags |-> <<<<"pv_residual_total", "500.0">>, <<"persistence_used", "1.0">>>>]
    ELSE IF s = 2
    THEN [bps |-> None, roe |-> None, r |-> Some(Rat(1, 5)),
          fair_price |-> None, gap_pct |-> None,
          flags |-> <<<<"FLAG_EQUITY_NON_POSITIVE", "true">>,
                      <<"FLAG_SUSPICIOUS_NUMERIC", "true">>>>]
    ELSE [bps |-> Some(Num(8)), roe |-> Some(Rat(1, 20)), r |-> Some(Rat(1, 20)),
          fair_price |-> Some(Num(8)), gap_pct |-> Some(Num(-20)),
          flags |-> <<<<"FLAG_ROE_BELOW_R", "true">>>>]

\* The rows of one session: at most one per ticker, in any order.
ConcBatches(s) ==
    {b \in UNION {[1 .. m -> {StoreRow(ConcSid, t, ConcValue(s)) : t \in StoreTickers}]
                    : m \in 0 .. Cardinality(StoreTickers)} :
        \A q, z \in 1 .. Len(b) : q # z => b[q].ticker # b[z].ticker}

ConcStoredAtStart == inserted_row(StoreRow(ConcSid, "005930", ConcValue(0)), 0)

ConcInit ==
    /\ conc_table \in {{}, {ConcStoredAtStart}}
    /\ conc_sessions \in
           {[s \in ConcSessions |->
                [rows |-> b[s], at |-> 1, pending |-> {}, st |-> "run", began |-> None]] :
            b \in [ConcSessions -> UNION {ConcBatches(s) : s \in ConcSessions}]}
    /\ \A s \in ConcSessions : conc_sessions[s].rows \in ConcBatches(s)
    /\ conc_commits = <<>>
    /\ ExtractIdle
    /\ SharesIdle
    /\ SrimIdle
    /\ ResolverIdle
    /\ StoreIdle
    /\ ClassifyIdle
    /\ SanitizeIdle
    /\ RunIdle

\* The session is in its loop, at a row.
ConcAtRow(s) ==
    /\ conc_sessions[s].st = "run"
    /\ conc_sessions[s].at <= Len(conc_sessions[s].rows)

\* The statement of session s waits: another open transaction holds its row.
ConcWaits(s) ==
    /\ ConcAtRow(s)
    /\ \E o \in ConcSessions \ {s} :
          /\ conc_sessions[o].st = "run"
          /\ \E e \in conc_sessions[o].pending :
                SameKey(e, conc_sessions[s].rows[conc_sessions[s].at])

\* srim_result as the statements of session s see it
ConcView(s) ==
    {e \in conc_table : \A p \in conc_sessions[s].pending : ~SameKey(e, p)}
        \cup conc_sessions[s].pending

\* db.execute(stmt, r); count += 1.  now() is the start of the transaction.
ConcExecute(s) ==
    /\ ConcAtRow(s)
    /\ ~ConcWaits(s)
    /\ LET me == conc_sessions[s]
           r == me.rows[me.at]
           began == IF me.began = None THEN Some(clock + 1) ELSE me.began
           after == execute_upsert(ConcView(s), r, Val(began))
       IN  conc_sessions' =
               [conc_sessions EXCEPT
                   ![s] = [me EXCEPT !.at = me.at + 1, !.began = began,
                                     !.pending = {e \in after :
                                                     \/ SameKey(e, r)
                                                     \/ e \in me.pending}]]
    /\ clock' = clock + 1
    /\ UNCHANGED <<conc_table, conc_commits>>
    /\ UNCHANGED concFrame

\* Both sessions wait for a row of the other: the statement of one of them
\* raises, the exception leaves upsert_srim_result and the transaction is
\* dropped when the session is closed.
ConcDeadlock(s) ==
    /\ \A o \in ConcSessions : ConcWaits(o)
    /\ conc_sessions' =
           [conc_sessions EXCEPT ![s] = [@ EXCEPT !.st = "raised", !.pending = {}]]
    /\ UNCHANGED <<conc_table, conc_commits, clock>>
    /\ UNCHANGED concFrame

\* db.commit(); return count ("if not rows: return 0" commits nothing)
ConcCommit(s) ==
    /\ conc_sessions[s].st = "run"
    /\ conc_sessions[s].at > Len(conc_sessions[s].rows)
    /\ conc_table' = ConcView(s)
    /\ conc_sessions' =
           [conc_sessions EXCEPT ![s] = [@ EXCEPT !.st = "returned", !.pending = {}]]
    /\ conc_commits' =
           IF conc_sessions[s].rows = <<>> THEN conc_commits ELSE Append(conc_commits, s)
    /\ UNCHANGED clock
    /\ UNCHANGED concFrame

ConcNext ==
    \E s \in ConcSessions : ConcExecute(s) \/ ConcDeadlock(s) \/ ConcCommit(s)

SpecConc == ConcInit /\ [][ConcNext]_vars

(***************************************************************************)
(* Claims about concurrent writers (checked under SpecConc)                *)
(***************************************************************************)
\* The row has all its computed fields from the one write w.
WrittenBy(e, w) ==
    /\ e.bps = w.bps
    /\ e.roe = w.roe
    /\ e.r = w.r
    /\ e.fair_price = w.fair_price
    /\ e.gap_pct = w.gap_pct
    /\ e.flags = cast_jsonb(w.flags)

\* The sessions that committed a row for the ticker, and the last of them.
ConcWriters(t) ==
    {q \in 1 .. Len(conc_commits) :
        \E z \in 1 .. Len(conc_sessions[conc_commits[q]].rows) :
            conc_sessions[conc_commits[q]].rows[z].ticker = t}

ConcLastWriter(t) ==
    conc_commits[CHOOSE q \in ConcWriters(t) : \A z \in ConcWriters(t) : z <= q]

\* C27: with two sessions in upsert_srim_result at the same time, a key never
\* has two rows, every row of the table has all its computed fields from one
\* write (of a session, or the one stored before), and once both sessions are
\* through, every key a session committed has the row of the last session
\* that committed it, and a key no session committed is as it was.
C27_LastWriteWinsPerKey ==
    /\ \A e, o \in conc_table : SameKey(e, o) => e = o
    /\ \A e \in conc_table : \E w \in {0} \cup ConcSessions : WrittenBy(e, ConcValue(w))
    /\ (\A s \in ConcSessions : conc_sessions[s].st # "run") =>
          \A t \in StoreTickers :
              LET at_key == {e \in conc_table : e.snapshot_id = ConcSid /\ e.ticker = t}
              IN  IF ConcWriters(t) # {}
                  THEN /\ Cardinality(at_key) = 1
                       /\ \A e \in at_key : WrittenBy(e, ConcValue(ConcLastWriter(t)))
                  ELSE at_key \subseteq {ConcStoredAtStart}

\* Session 1 began first and wrote its other row, session 2 wrote the shared
\* key and committed, then session 1 overwrote that key and committed: the key
\* holds the row of session 1, the other key too.
C27_Witness ==
    /\ conc_commits = <<2, 1>>
    /\ \A s \in ConcSessions : conc_sessions[s].st = "returned"
    /\ Len(conc_sessions[1].rows) = 2
    /\ conc_sessions[1].rows[2].ticker = "005930"
    /\ Len(conc_sessions[2].rows) = 1
    /\ conc_sessions[2].rows[1].ticker = "005930"
    /\ Val(conc_sessions[1].began) < Val(conc_sessions[2].began)
    /\ Cardinality(conc_table) = 2
    /\ \A e \in conc_table : WrittenBy(e, ConcValue(1))

=============================================================================
